---------------------------- MODULE Spec2Model ----------------------------
(***************************************************************************)
(* Lightburn Grid Marker (chaoticmachinery/laser): the grid model, the     *)
(* annotation store and the CSV export / load of the two variants          *)
(* grid_v1.py (fixed axes) and grid_v2.py (configurable axes).             *)
(*                                                                         *)
(* Text is a sequence of one-character strings.  A number is an integer    *)
(* count of 1/SCALE units, so every text of at most four decimals parses   *)
(* exactly; an interpolated sample is the exact fraction num / den.        *)
(***************************************************************************)
EXTENDS Integers, Sequences, FiniteSets, TLC

(***************************************************************************)
(* Text primitives (Python str methods used by the source).                *)
(***************************************************************************)
DIGITS == <<"0", "1", "2", "3", "4", "5", "6", "7", "8", "9">>

IsDigit(c) == \E i \in 1..10 : DIGITS[i] = c

DigitVal(c) == (CHOOSE i \in 1..10 : DIGITS[i] = c) - 1

IsSpace(c) == c = " "

\* str.strip(): drop leading and trailing whitespace
Strip(s) ==
    IF \A i \in 1..Len(s) : IsSpace(s[i]) THEN <<>>
    ELSE LET lo == CHOOSE i \in 1..Len(s) :
                        ~IsSpace(s[i]) /\ \A j \in 1..(i - 1) : IsSpace(s[j])
             hi == CHOOSE i \in 1..Len(s) :
                        ~IsSpace(s[i]) /\ \A j \in (i + 1)..Len(s) : IsSpace(s[j])
         IN  SubSeq(s, lo, hi)

\* s[:n]
Prefix(s, n) == IF Len(s) > n THEN SubSeq(s, 1, n) ELSE s

\* s.startswith(c) for a one-character c
StartsWith(s, c) == Len(s) > 0 /\ s[1] = c

Contains(s, c) == \E i \in 1..Len(s) : s[i] = c

RECURSIVE NatToStr(_)
\* str(n) for an int n >= 0
NatToStr(n) ==
    IF n < 10 THEN <<DIGITS[n + 1]>>
    ELSE NatToStr(n \div 10) \o <<DIGITS[(n % 10) + 1]>>

RECURSIVE DigitsToNat(_)
DigitsToNat(s) ==
    IF s = <<>> THEN 0
    ELSE 10 * DigitsToNat(SubSeq(s, 1, Len(s) - 1)) + DigitVal(s[Len(s)])

AllDigits(s) == \A i \in 1..Len(s) : IsDigit(s[i])

\* n written with exactly w digits (leading zeros)
RECURSIVE ZeroPad(_, _)
ZeroPad(n, w) ==
    IF w = 0 THEN <<>> ELSE ZeroPad(n \div 10, w - 1) \o <<DIGITS[(n % 10) + 1]>>

(***************************************************************************)
(* Numbers.  SCALE units per 1; FRAC_DIGITS decimals are kept exactly.     *)
(***************************************************************************)
FRAC_DIGITS == 4

RECURSIVE Pow10(_)
Pow10(k) == IF k = 0 THEN 1 ELSE 10 * Pow10(k - 1)

SCALE == Pow10(FRAC_DIGITS)

Fail == [ok |-> FALSE, val |-> 0]

\* int(text): surrounding whitespace ignored, then decimal digits only
ParseIntStripped(s) ==
    IF s # <<>> /\ AllDigits(s) THEN [ok |-> TRUE, val |-> DigitsToNat(s)] ELSE Fail

ParseInt(text) == ParseIntStripped(Strip(text))

\* float(text) for unsigned decimal text "ddd", "ddd.ddd", "ddd." or ".ddd" of
\* at most FRAC_DIGITS decimals; any other text of the alphabet raises ValueError
ParseFloatStripped(s) ==
    LET dots == {i \in 1..Len(s) : s[i] = "."}
    IN  IF s = <<>> \/ Cardinality(dots) > 1 THEN Fail
        ELSE IF dots = {} THEN
            IF AllDigits(s) THEN [ok |-> TRUE, val |-> DigitsToNat(s) * SCALE] ELSE Fail
        ELSE LET d  == CHOOSE i \in dots : TRUE
                 ip == SubSeq(s, 1, d - 1)
                 fp == SubSeq(s, d + 1, Len(s))
             IN  IF AllDigits(ip) /\ AllDigits(fp) /\ Len(ip) + Len(fp) > 0
                    /\ Len(fp) <= FRAC_DIGITS
                 THEN [ok |-> TRUE,
                       val |-> DigitsToNat(ip) * SCALE
                               + DigitsToNat(fp) * Pow10(FRAC_DIGITS - Len(fp))]
                 ELSE Fail

ParseFloat(text) == ParseFloatStripped(Strip(text))

\* round-half-even of the fraction num / den (den > 0, num >= 0) to an integer
RoundHalfEven(num, den) ==
    LET q == num \div den
        r == num % den
    IN  IF 2 * r < den THEN q
        ELSE IF 2 * r > den THEN q + 1
        ELSE IF q % 2 = 0 THEN q ELSE q + 1

\* f"{int(round(v))}" for v = num / den
FormatInt(num, den) == NatToStr(RoundHalfEven(num, den))

\* f"{v:.kf}" for v = num / den, where Pow10(k) divides den
FormatFixed(num, den, k) ==
    LET t == RoundHalfEven(num, den \div Pow10(k))
    IN  NatToStr(t \div Pow10(k)) \o <<".">> \o ZeroPad(t % Pow10(k), k)

\* str(v) of a float v = n / SCALE: shortest decimal text, at least one decimal
FloatStr(n) ==
    LET fp   == ZeroPad(n % SCALE, FRAC_DIGITS)
        keep == {i \in 1..FRAC_DIGITS : fp[i] # "0"} \cup {1}
        hi   == CHOOSE i \in keep : \A j \in keep : j <= i
    IN  NatToStr(n \div SCALE) \o <<".">> \o SubSeq(fp, 1, hi)

(***************************************************************************)
(* grid_v2: configuration and the axis value generator.                    *)
(***************************************************************************)
MAX_NOTE_LENGTH == 512

DEFAULT_X_COUNTS == 20

DEFAULT_Y_COUNTS == 20

PARAMETERS == <<"Speed", "Power", "Frequency", "Line Interval", "Passes", "Q-Pulse">>

ParamSet == {PARAMETERS[i] : i \in 1..Len(PARAMETERS)}

_default_start(param) ==
    CASE param = "Speed"         -> <<"4", "0", "0", "0">>
      [] param = "Power"         -> <<"9", "0">>
      [] param = "Frequency"     -> <<"3", "8", "0", "0", ".", "0">>
      [] param = "Line Interval" -> <<"0", ".", "0", "0", "1", "0">>
      [] param = "Passes"        -> <<"1">>
      [] param = "Q-Pulse"       -> <<"1", "5", "0">>
      [] OTHER                   -> <<"1">>

_default_end(param) ==
    CASE param = "Speed"         -> <<"1", "0", "0", "0">>
      [] param = "Power"         -> <<"1", "0">>
      [] param = "Frequency"     -> <<"1", "0", "0", ".", "0">>
      [] param = "Line Interval" -> <<"0", ".", "0", "2", "0">>
      [] param = "Passes"        -> <<"1", "0">>
      [] param = "Q-Pulse"       -> <<"2", "0", "0">>
      [] OTHER                   -> <<"2", "0", "0">>

DefaultRanges ==
    [p \in ParamSet |-> [start |-> _default_start(p), end |-> _default_end(p)]]

\* one sample start + i * step, step = (end - start) / (counts - 1), as the
\* fraction num / den of a unit; a and b are start and end in 1/SCALE units
SampleNum(a, b, counts, i) == a * (counts - 1) + i * (b - a)

SampleDen(counts) == SCALE * (counts - 1)

\* the formatting of one sample by the parameter's class
FormatSample(param, num, den) ==
    IF param \in {"Speed", "Power", "Passes", "Q-Pulse"} THEN FormatInt(num, den)
    ELSE IF param = "Line Interval" THEN FormatFixed(num, den, 4)
    ELSE IF param = "Frequency" THEN FormatFixed(num, den, 1)
    ELSE FormatFixed(num, den, 2)

\* the start == end branch: count repetitions of one text
EqualBranchOnce(param, a, counts) == <<FloatStr(a)>>

EqualBranch(param, a, counts) ==
    IF param = "Frequency" THEN [i \in 1..counts |-> FormatFixed(a, SCALE, 1)]
    ELSE [i \in 1..counts |-> FloatStr(a)]

\* _generate_values(param, counts) reading the range fields rng; ok = FALSE is
\* the ValueError "Invalid range for <param>" (a KeyError for an unknown
\* parameter is raised inside the same try and becomes the same ValueError)
GenerateParsed(param, start, end, counts) ==
    IF ~start.ok \/ ~end.ok THEN [ok |-> FALSE, vals |-> <<>>]
    ELSE IF start.val = end.val
    THEN [ok |-> TRUE, vals |-> EqualBranch(param, start.val, counts)]
    ELSE [ok |-> TRUE,
          vals |-> [i \in 1..counts |->
                      FormatSample(param,
                                   SampleNum(start.val, end.val, counts, i - 1),
                                   SampleDen(counts))]]

_generate_values(rng, param, counts) ==
    IF param \notin DOMAIN rng THEN [ok |-> FALSE, vals |-> <<>>]
    ELSE GenerateParsed(param, ParseFloat(rng[param].start), ParseFloat(rng[param].end),
                        counts)

\* max(2, n): apply_ranges never samples an axis with fewer than two values
ClampCount(n) == IF n < 2 THEN 2 ELSE n

(***************************************************************************)
(* Bounds of the model and the operator inputs explored.                   *)
(***************************************************************************)
\* the rows and columns of the cells the operator clicks
ClickRows == {1}

ClickCols == {0, 1}

\* requested sample counts 0..MaxCount (and the default) for the generator
MaxCount == 5

\* a session runs at most this many handlers
MaxSteps == 5

\* a session of note edits alone runs at most this many handlers
MaxNoteSteps == 3

Txt150 == <<"1", "5", "0">>

Txt151 == <<"1", "5", "1">>

TxtBad == <<"x">>

\* texts typed into the note dialog; None is the cancelled dialog
None == <<"None">>

\* a text longer than the maximum: one space, then max + 2 letters
LongRaw(max) == [i \in 1..(max + 3) |-> IF i = 1 THEN " " ELSE "n"]

NoteInputs == {<<" ", "a", " ">>, <<" ", " ">>}

Dates == {<<"2", "0", "2", "5", "-", "1", "2", "-", "2", "8">>,
          <<"2", "0", "2", "6", "-", "0", "1", "-", "0", "2">>}

(***************************************************************************)
(* State.  variant names the program that runs: "v1" (grid_v1.py), "v2"    *)
(* (grid_v2.py) or "gen" (the axis value generator on its own).            *)
(***************************************************************************)
VARIABLES
    variant,
    \* both variants
    notes,              \* self.notes: (tab, row, col) -> text
    buttons,            \* the keys of self.buttons, as the grids <<tab, rows, columns>>
                        \* built so far: the keys are the cells of these grids
    tabs,               \* the notebook's tabs: tab id -> [x, y] header values
    file,               \* the CSV file on disk, NoFile before any export
    dialog,             \* the message boxes the last handler showed, in order
    last,               \* the last handler run and its outcome
    steps,              \* the number of handlers run so far
    \* grid_v2
    x_axis_var, y_axis_var, qpulse_mode, ranges, x_counts_var, y_counts_var,
    current_values_x, current_values_y, current_x_param, current_y_param,
    global_entries,
    \* grid_v1
    range_vars,         \* freq_start_var .. q2_end_var
    scan_vars,          \* mode_var, angle_inc_var, auto_rotate_var, bi_dir_var, cross_hatch_var
    title_entry, param_entries,
    current_freq_labels, current_qpulse1, current_qpulse2,
    \* the generator on its own
    gen

sharedVars == <<notes, buttons, tabs, file, dialog, last, steps>>

formVars == <<x_axis_var, y_axis_var, qpulse_mode, ranges, x_counts_var, y_counts_var>>

gridVars == <<current_values_x, current_values_y, current_x_param, current_y_param>>

v2Vars == <<formVars, gridVars, global_entries>>

v1FormVars == <<range_vars, scan_vars, title_entry, param_entries>>

v1GridVars == <<current_freq_labels, current_qpulse1, current_qpulse2>>

v1Vars == <<v1FormVars, v1GridVars>>

vars == <<variant, sharedVars, v2Vars, v1Vars, gen>>

NoFile == [exists |-> FALSE, meta |-> <<>>, header |-> <<>>, rows |-> <<>>]

EmptyNotes == [k \in {} |-> <<>>]

\* store operations on the dict self.notes
NotesSet(n, key, text) ==
    [k \in (DOMAIN n) \cup {key} |-> IF k = key THEN text ELSE n[k]]

NotesPop(n, key) == [k \in (DOMAIN n) \ {key} |-> n[k]]

\* Python's order of (tab, row, col) tuples
KeyLess(a, b) ==
    \/ a[1] < b[1]
    \/ a[1] = b[1] /\ a[2] < b[2]
    \/ a[1] = b[1] /\ a[2] = b[2] /\ a[3] < b[3]

RECURSIVE KeysDescending(_)
\* the keys in descending order: what sorted(..., reverse=True) would give
KeysDescending(S) ==
    IF S = {} THEN <<>>
    ELSE LET m == CHOOSE k \in S : \A j \in S \ {k} : KeyLess(j, k)
         IN  <<m>> \o KeysDescending(S \ {m})

RECURSIVE SortedKeys(_)
\* sorted(self.notes.items()): the keys in ascending order
SortedKeys(S) ==
    IF S = {} THEN <<>>
    ELSE LET m == CHOOSE k \in S : \A j \in S \ {k} : KeyLess(k, j)
         IN  <<m>> \o SortedKeys(S \ {m})

\* the keys _build_grid / create_grid registers for one tab: the cells
\* (tab_id, 0..rows-1, 0..columns-1)
GridOf(tab_id, y_values, x_values) == <<tab_id, Len(y_values), Len(x_values)>>

\* key in self.buttons
HasButton(b, key) ==
    \E g \in b : key[1] = g[1] /\ key[2] < g[2] /\ key[3] < g[3]

\* the cells on screen that the operator clicks: those of the notebook's
\* current tabs, within ClickRows and ClickCols
EditKeys ==
    UNION {{<<t, r, c>> : r \in {i \in ClickRows : i < Len(tabs[t].y)},
                          c \in {i \in ClickCols : i < Len(tabs[t].x)}} : t \in DOMAIN tabs}

Msg(box, title) == [box |-> box, title |-> title]

NoTabs == [t \in {} |-> [x |-> <<>>, y |-> <<>>]]

(***************************************************************************)
(* grid_v2: apply_ranges.                                                  *)
(***************************************************************************)
\* the check of line 490
AxisConflictNever(x_param, y_param) == FALSE

AxisConflict(x_param, y_param) == x_param = y_param

\* clear_all(silent=True) on the store
clear_all(n) == EmptyNotes

\* the first tab's share of a split x sequence
SplitMidFloor(total) == total \div 2

SplitMid(total) == (total + 1) \div 2

\* _create_single_grid: one tab, id 0
_create_single_grid(xs, ys) == [t \in {0} |-> [x |-> xs, y |-> ys]]

\* _create_split_grids: [tabs, warned]
SplitWithoutFallback(xs, ys) ==
    [tabs |-> [t \in {1, 2} |->
                 [x |-> IF t = 1 THEN SubSeq(xs, 1, SplitMid(Len(xs)))
                        ELSE SubSeq(xs, SplitMid(Len(xs)) + 1, Len(xs)),
                  y |-> ys]],
     warned |-> FALSE]

_create_split_grids(xs, ys) ==
    LET total == Len(xs)
        mid   == SplitMid(total)
    IN  IF total < 4
        THEN [tabs |-> _create_single_grid(xs, ys), warned |-> TRUE]
        ELSE [tabs |-> [t \in {1, 2} |->
                          [x |-> IF t = 1 THEN SubSeq(xs, 1, mid)
                                 ELSE SubSeq(xs, mid + 1, total),
                           y |-> ys]],
              warned |-> FALSE]

\* the grids of the tabs tb
TabKeys(tb) == {GridOf(t, tb[t].y, tb[t].x) : t \in DOMAIN tb}

\* The body of apply_ranges after the confirmation, on the form fields f and
\* the state st = [current_values_x, current_values_y, current_x_param,
\* current_y_param, tabs, buttons, notes]; msgs are the boxes shown and
\* built says whether the grid was regenerated.
\* lines 499-514: the tabs are replaced and the store is cleared
ApplyBuilt(f, st, xs, ys, sp) ==
    [st |-> [current_values_x |-> xs,
             current_values_y |-> ys,
             current_x_param  |-> f.x_axis_var,
             current_y_param  |-> f.y_axis_var,
             tabs             |-> sp.tabs,
             buttons          |-> st.buttons \cup TabKeys(sp.tabs),
             notes            |-> clear_all(st.notes)],
     msgs |-> IF sp.warned THEN <<Msg("showwarning", "Split Grids")>> ELSE <<>>,
     built |-> TRUE]

\* lines 496-497 onwards, on the outcomes gx and gy of the two generator calls
ApplyGenerated(f, st, gx, gy) ==
    IF ~gx.ok
    THEN [st |-> st, msgs |-> <<Msg("showerror", "Input Error")>>, built |-> FALSE]
    ELSE IF ~gy.ok
    \* current_values_x is assigned before the y axis is generated
    THEN [st |-> [st EXCEPT !.current_values_x = gx.vals],
          msgs |-> <<Msg("showerror", "Input Error")>>, built |-> FALSE]
    ELSE ApplyBuilt(f, st, gx.vals, gy.vals,
                    IF f.qpulse_mode = "Split"
                    THEN _create_split_grids(gx.vals, gy.vals)
                    ELSE [tabs |-> _create_single_grid(gx.vals, gy.vals),
                          warned |-> FALSE])

\* lines 493-494 onwards, on the parsed counts
ApplyCounted(f, st, x_counts, y_counts) ==
    IF ~x_counts.ok \/ ~y_counts.ok
    THEN [st |-> st, msgs |-> <<Msg("showerror", "Input Error")>>, built |-> FALSE]
    ELSE ApplyGenerated(f, st,
                        _generate_values(f.ranges, f.x_axis_var, ClampCount(x_counts.val)),
                        _generate_values(f.ranges, f.y_axis_var, ClampCount(y_counts.val)))

apply_ranges(f, st) ==
    IF AxisConflict(f.x_axis_var, f.y_axis_var)
    THEN [st |-> st, msgs |-> <<Msg("showerror", "Input Error")>>, built |-> FALSE]
    ELSE ApplyCounted(f, st, ParseInt(f.x_counts_var), ParseInt(f.y_counts_var))

Form == [x_axis_var |-> x_axis_var, y_axis_var |-> y_axis_var,
         qpulse_mode |-> qpulse_mode, ranges |-> ranges,
         x_counts_var |-> x_counts_var, y_counts_var |-> y_counts_var]

GridState == [current_values_x |-> current_values_x,
              current_values_y |-> current_values_y,
              current_x_param  |-> current_x_param,
              current_y_param  |-> current_y_param,
              tabs |-> tabs, buttons |-> buttons, notes |-> notes]

\* the assignment of a state record to the variables
SetGridState(st) ==
    /\ current_values_x' = st.current_values_x
    /\ current_values_y' = st.current_values_y
    /\ current_x_param' = st.current_x_param
    /\ current_y_param' = st.current_y_param
    /\ tabs' = st.tabs
    /\ buttons' = st.buttons
    /\ notes' = st.notes

(***************************************************************************)
(* grid_v2: the forms the operator fills in before pressing Apply.         *)
(***************************************************************************)
RangesWith(p, a, b) == [DefaultRanges EXCEPT ![p] = [start |-> a, end |-> b]]

MkForm(xa, ya, mode, xc, yc, rng) ==
    [x_axis_var |-> xa, y_axis_var |-> ya, qpulse_mode |-> mode,
     ranges |-> rng, x_counts_var |-> xc, y_counts_var |-> yc]

\* the form of a fresh window
DefaultForm ==
    MkForm("Q-Pulse", "Frequency", "Single",
           NatToStr(DEFAULT_X_COUNTS), NatToStr(DEFAULT_Y_COUNTS), DefaultRanges)

Forms ==
    { \* the default form with the split mode chosen: 20 columns
      [DefaultForm EXCEPT !.qpulse_mode = "Split"],
      \* split, 4 columns 150 150 151 151: two columns share a header
      MkForm("Q-Pulse", "Frequency", "Split", <<"4">>, <<"2">>,
             RangesWith("Q-Pulse", Txt150, Txt151)),
      \* split, 5 columns 150 162 175 188 200
      MkForm("Q-Pulse", "Frequency", "Split", <<"5">>, <<"2">>, DefaultRanges),
      \* split asked of 3 columns, a row count below 2
      MkForm("Power", "Frequency", "Split", <<"3">>, <<"1">>, DefaultRanges),
      \* the same parameter on both axes
      MkForm("Frequency", "Frequency", "Single", <<"4">>, <<"2">>, DefaultRanges),
      \* the y range does not parse
      MkForm("Power", "Frequency", "Single", <<"3">>, <<"2">>,
             RangesWith("Frequency", TxtBad, <<"1", "0", "0">>)),
      \* the x range does not parse
      MkForm("Q-Pulse", "Frequency", "Single", <<"3">>, <<"2">>,
             RangesWith("Q-Pulse", Txt150, TxtBad)) }

(***************************************************************************)
(* grid_v2: global parameters.                                             *)
(***************************************************************************)
GlobalKeys == {"Title"} \cup ParamSet

\* the order of self.global_entries
GLOBAL_ORDER == <<"Title">> \o PARAMETERS

TitlePrefix == <<"L", "a", "s", "e", "r", " ", "T", "e", "s", "t", " ", "-", " ">>

\* create_global_params: the defaults of the entries, on the day today
DefaultGlobals(today) ==
    [k \in GlobalKeys |->
        CASE k = "Title"         -> TitlePrefix \o today
          [] k = "Speed"         -> <<"3", "0", "0", "0">>
          [] k = "Power"         -> <<"2", "0">>
          [] k = "Frequency"     -> <<"1", "0", "0", "0">>
          [] k = "Line Interval" -> <<"0", ".", "0", "2", "5", "0">>
          [] k = "Passes"        -> <<"1", "0">>
          [] k = "Q-Pulse"       -> <<"2", "0", "0">>]

\* _update_global_field_states: the entries of the two selected axes are
\* disabled; it runs on every write of either axis variable
DisabledEntries(xa, ya) == {xa, ya} \ {"Title"}

\* texts the operator types into an enabled global entry
GlobalInputs == {<<"Speed", <<"2", "5", "0", "0", " ">>>>}

(***************************************************************************)
(* grid_v2: export_to_csv.  The file is the metadata lines "# key: value"  *)
(* in writing order, the header row and the data rows; a row maps each     *)
(* column name to its text.  A metadata key is a tuple of its parts.       *)
(***************************************************************************)
COLUMNS == <<"Note", "Tab", "X_Param", "X_Value", "Y_Param", "Y_Value", "Title">>
           \o PARAMETERS

ColumnSet == {COLUMNS[i] : i \in 1..Len(COLUMNS)}

\* fmt(val) of export_to_csv
FmtParsed(val, f) ==
    IF ~f.ok THEN val
    ELSE IF f.val % SCALE = 0 THEN NatToStr(f.val \div SCALE)
    ELSE IF f.val < SCALE THEN FormatFixed(f.val, SCALE, 4)
    ELSE FormatFixed(f.val, SCALE, 1)

Fmt(val) == FmtParsed(val, ParseFloat(val))

\* the composite description of one row
DynamicTitle(note_text, cs) ==
    Strip(note_text
          \o <<" ", "(", "S", ":">> \o Fmt(cs["Speed"])
          \o <<" ", "P", ":">> \o Fmt(cs["Power"])
          \o <<" ", "F", ":">> \o Fmt(cs["Frequency"])
          \o <<" ", "Q", "P", ":">> \o Fmt(cs["Q-Pulse"])
          \o <<" ", "L", "I", ":">> \o Fmt(cs["Line Interval"])
          \o <<" ", "P", "a", "s", "s", ":">> \o Fmt(cs["Passes"])
          \o <<")">>)

\* globals_dict: every entry's text, stripped
GlobalsDict(ge) == [k \in GlobalKeys |-> Strip(ge[k])]

\* cell_settings: the globals with the two axis parameters overridden
CellSettings(gd, x_param, x_value, y_param, y_value) ==
    [k \in GlobalKeys |->
        IF k = y_param THEN y_value
        ELSE IF k = x_param THEN x_value
        ELSE gd[k]]

\* the row written for the annotation at key; g is the grid state
ExportRowOf(key, note_text, g, x_value, y_value, cs) ==
    [col \in ColumnSet |->
        CASE col = "Note"    -> note_text
          [] col = "Tab"     -> NatToStr(key[1])
          [] col = "X_Param" -> g.current_x_param
          [] col = "X_Value" -> x_value
          [] col = "Y_Param" -> g.current_y_param
          [] col = "Y_Value" -> y_value
          [] col = "Title"   -> DynamicTitle(note_text, cs)
          [] OTHER           -> cs[col]]

ExportRow(key, note_text, g, gd) ==
    ExportRowOf(key, note_text, g,
                g.current_values_x[key[3] + 1], g.current_values_y[key[2] + 1],
                CellSettings(gd, g.current_x_param, g.current_values_x[key[3] + 1],
                             g.current_y_param, g.current_values_y[key[2] + 1]))

\* an index of the loop of lines 189-192 is outside the current sequences
ExportIndexError(g) ==
    \E k \in DOMAIN g.notes :
        k[3] >= Len(g.current_values_x) \/ k[2] >= Len(g.current_values_y)

ExportRows(g, gd) ==
    LET ks == SortedKeys(DOMAIN g.notes)
    IN  [i \in 1..Len(ks) |-> ExportRow(ks[i], g.notes[ks[i]], g, gd)]

RangeLines(rng) ==
    [i \in 1..(2 * Len(PARAMETERS)) |->
        LET p == PARAMETERS[(i + 1) \div 2]
        IN  IF i % 2 = 1 THEN <<<<p, "_start">>, rng[p].start>>
            ELSE <<<<p, "_end">>, rng[p].end>>]

GlobalLines(gd) == [i \in 1..Len(GLOBAL_ORDER) |-> <<<<GLOBAL_ORDER[i]>>, gd[GLOBAL_ORDER[i]]>>]

\* the metadata preamble: the applied axes, but the mode, count and range
\* fields as the form holds them now
ExportMeta(today, f, g, gd) ==
    << <<<<"Date">>, today>>,
       <<<<"X_Axis">>, g.current_x_param>>,
       <<<<"Y_Axis">>, g.current_y_param>>,
       <<<<"Mode">>, IF f.qpulse_mode = "Split" THEN "Split" ELSE "Single">>,
       <<<<"X_counts">>, f.x_counts_var>>,
       <<<<"Y_counts">>, f.y_counts_var>>,
       <<<<"Parameter Ranges">>, <<>>>> >>
    \o RangeLines(f.ranges)
    \o << <<<<"Global Parameters">>, <<>>>> >>
    \o GlobalLines(gd)

ExportFileOf(today, f, g, gd) ==
    [exists |-> TRUE,
     meta   |-> ExportMeta(today, f, g, gd),
     header |-> COLUMNS,
     rows   |-> ExportRows(g, gd)]

ExportFile(today, f, g, ge) == ExportFileOf(today, f, g, GlobalsDict(ge))

\* the guard of line 173
NothingToExportNever(n) == FALSE

NothingToExport(n) == DOMAIN n = {}

(***************************************************************************)
(* grid_v2: load_from_csv.                                                 *)
(***************************************************************************)
\* csv.writer quotes a field holding the delimiter or the quote character
NeedsQuote(field, delim) == Contains(field, delim) \/ Contains(field, "\"")

\* the text line of a data row starts with "#": its first field is written
\* unquoted and starts with "#"
RowStartsWithHash(row, first, delim) ==
    StartsWith(row[first], "#") /\ ~NeedsQuote(row[first], delim)

\* data_lines after the header: rows whose line is not taken for metadata.
\* A row line that starts with "#" and holds a colon is stored in metadata
\* under a key that holds the delimiter, which no lookup uses; one without a
\* colon is dropped by both branches.
DataRows(rows) ==
    SelectSeq(rows, LAMBDA row : ~RowStartsWithHash(row, "Note", "|"))

\* metadata[key] of the dict built line by line: the last line wins
HasMeta(meta, key) == \E i \in 1..Len(meta) : meta[i][1] = key

MetaGet(meta, key) ==
    LET hits == {i \in 1..Len(meta) : meta[i][1] = key}
        i    == CHOOSE h \in hits : \A j \in hits : j <= h
    IN  meta[i][2]

MetaOr(meta, key, old) == IF HasMeta(meta, key) THEN MetaGet(meta, key) ELSE old

\* lines 295-312: the form fields after the metadata is applied to them
LoadForm(meta, f) ==
    [x_axis_var   |-> MetaOr(meta, <<"X_Axis">>, f.x_axis_var),
     y_axis_var   |-> MetaOr(meta, <<"Y_Axis">>, f.y_axis_var),
     qpulse_mode  |-> IF HasMeta(meta, <<"Mode">>)
                      THEN (IF MetaGet(meta, <<"Mode">>) = "Split" THEN "Split" ELSE "Single")
                      ELSE f.qpulse_mode,
     x_counts_var |-> IF HasMeta(meta, <<"X_counts">>)
                      THEN Strip(MetaGet(meta, <<"X_counts">>)) ELSE f.x_counts_var,
     y_counts_var |-> IF HasMeta(meta, <<"Y_counts">>)
                      THEN Strip(MetaGet(meta, <<"Y_counts">>)) ELSE f.y_counts_var,
     ranges |-> [p \in ParamSet |->
                   [start |-> IF HasMeta(meta, <<p, "_start">>)
                              THEN Strip(MetaGet(meta, <<p, "_start">>))
                              ELSE f.ranges[p].start,
                    end   |-> IF HasMeta(meta, <<p, "_end">>)
                              THEN Strip(MetaGet(meta, <<p, "_end">>))
                              ELSE f.ranges[p].end]]]

\* a decoder that takes the title from the date line when there is one
LoadGlobalsDated(meta, ge, disabled) ==
    [k \in GlobalKeys |->
        IF k = "Title" /\ HasMeta(meta, <<"Date">>) THEN Strip(MetaGet(meta, <<"Date">>))
        ELSE IF HasMeta(meta, <<k>>) /\ k \notin disabled
        THEN Strip(MetaGet(meta, <<k>>)) ELSE ge[k]]

\* lines 316-319: entries named in the metadata are overwritten; delete and
\* insert do nothing on a disabled entry
LoadGlobals(meta, ge, disabled) ==
    [k \in GlobalKeys |->
        IF HasMeta(meta, <<k>>) /\ k \notin disabled
        THEN Strip(MetaGet(meta, <<k>>)) ELSE ge[k]]

\* next((i for i, v in enumerate(values) if str(v) == str(val)), None),
\* 0 for None and the index plus one otherwise
FirstIndex(values, val) ==
    LET hits == {i \in 1..Len(values) : values[i] = val}
    IN  IF hits = {} THEN 0 ELSE CHOOSE i \in hits : \A j \in hits : i <= j

\* one row of the loop of lines 333-358: [hit, key, note]
LoadRowAt(tab, r, c, note, g) ==
    IF tab.ok /\ r # 0 /\ c # 0 /\ HasButton(g.buttons, <<tab.val, r - 1, c - 1>>)
    THEN [hit |-> TRUE, key |-> <<tab.val, r - 1, c - 1>>, note |-> note]
    ELSE [hit |-> FALSE, key |-> <<0, 0, 0>>, note |-> <<>>]

LoadRow(row, g) ==
    IF {"X_Param", "Y_Param", "X_Value", "Y_Value"} \subseteq DOMAIN row
    THEN IF row["X_Param"] # g.current_x_param \/ row["Y_Param"] # g.current_y_param
         THEN [hit |-> FALSE, key |-> <<0, 0, 0>>, note |-> <<>>]
         ELSE LoadRowAt(IF "Tab" \in DOMAIN row THEN ParseInt(row["Tab"])
                        ELSE [ok |-> TRUE, val |-> 0],
                        FirstIndex(g.current_values_y, row["Y_Value"]),
                        FirstIndex(g.current_values_x, row["X_Value"]),
                        IF "Note" \in DOMAIN row THEN Strip(row["Note"]) ELSE <<>>,
                        g)
    ELSE [hit |-> FALSE, key |-> <<0, 0, 0>>, note |-> <<>>]

RECURSIVE LoadRows(_, _, _, _)
\* the loop over the rows: the store and the count of loaded notes
\* one pass of the loop body on the row outcome res
LoadStep(acc, res) ==
    IF res.hit
    THEN [notes  |-> NotesSet(acc.notes, res.key, res.note), loaded |-> acc.loaded + 1]
    ELSE acc

LoadRows(rows, i, g, acc) ==
    IF i > Len(rows) THEN acc
    ELSE LoadRows(rows, i + 1, g, LoadStep(acc, LoadRow(rows[i], g)))

\* load_from_csv once a file is chosen: the new form, grid state and global
\* entries, the boxes shown and the count reported
\* lines 321 onwards, on the outcome res of the loop over the rows
LoadFinish(fl, f2, ap, ge2, res) ==
    IF fl.header = <<>>
    \* no data line at all: metadata only
    THEN [form |-> f2, st |-> ap.st, ge |-> ge2, loaded |-> 0,
          msgs |-> ap.msgs \o <<Msg("showinfo", "Load")>>]
    ELSE [form |-> f2, st |-> [ap.st EXCEPT !.notes = res.notes], ge |-> ge2,
          loaded |-> res.loaded,
          msgs |-> ap.msgs \o <<Msg("showinfo", "Load Complete")>>]

\* lines 316 onwards, on the outcome ap of the silent apply_ranges
LoadApplied(fl, f2, ap, ge) ==
    LoadFinish(fl, f2, ap,
               LoadGlobals(fl.meta, ge, DisabledEntries(f2.x_axis_var, f2.y_axis_var)),
               LoadRows(DataRows(fl.rows), 1, ap.st,
                        [notes |-> clear_all(ap.st.notes), loaded |-> 0]))

\* lines 314 onwards, on the form fields f2 restored from the metadata
LoadRestored(fl, f2, st, ge) == LoadApplied(fl, f2, apply_ranges(f2, st), ge)

load_from_csv(fl, f, st, ge) == LoadRestored(fl, LoadForm(fl.meta, f), st, ge)

(***************************************************************************)
(* grid_v2: edit_note.                                                     *)
(***************************************************************************)
\* lines 627-629: strip, then cut to the maximum length
NormalizeCutFirst(text, max) == Strip(Prefix(text, max))

Normalize(text, max) == Prefix(Strip(text), max)

\* the store after the dialog returned text (None when cancelled)
edit_note(n, key, text, max) ==
    IF text = None THEN n
    ELSE LET new_text == Normalize(text, max)
         IN  IF new_text # <<>> THEN NotesSet(n, key, new_text) ELSE NotesPop(n, key)

EditResult(n, key, text, max) ==
    IF text = None THEN "cancelled"
    ELSE IF Normalize(text, max) # <<>> THEN "stored"
    ELSE "cleared"

(***************************************************************************)
(* grid_v2: the window after construction, and its handlers.               *)
(***************************************************************************)
ConstructionDay == <<"2", "0", "2", "5", "-", "1", "2", "-", "2", "8">>

BlankGrid == [current_values_x |-> <<>>, current_values_y |-> <<>>,
              current_x_param |-> "", current_y_param |-> "",
              tabs |-> NoTabs, buttons |-> {}, notes |-> EmptyNotes]

Did(op, result) == [op |-> op, result |-> result, loaded |-> 0]

\* one more handler runs
Step == steps < MaxSteps /\ steps' = steps + 1

\* the fields of the other variant and of the generator stay idle
V1Idle ==
    /\ range_vars = <<>> /\ scan_vars = <<>> /\ title_entry = <<>> /\ param_entries = <<>>
    /\ current_freq_labels = <<>> /\ current_qpulse1 = <<>> /\ current_qpulse2 = <<>>

GenIdle == gen = <<>>

\* the state record st as the initial state
SetInit(st) ==
    /\ current_values_x = st.current_values_x
    /\ current_values_y = st.current_values_y
    /\ current_x_param = st.current_x_param
    /\ current_y_param = st.current_y_param
    /\ tabs = st.tabs
    /\ buttons = st.buttons
    /\ notes = st.notes

InitV2 ==
    /\ variant = "v2"
    /\ x_axis_var = DefaultForm.x_axis_var
    /\ y_axis_var = DefaultForm.y_axis_var
    /\ qpulse_mode = DefaultForm.qpulse_mode
    /\ ranges = DefaultForm.ranges
    /\ x_counts_var = DefaultForm.x_counts_var
    /\ y_counts_var = DefaultForm.y_counts_var
    /\ global_entries = DefaultGlobals(ConstructionDay)
    /\ SetInit(apply_ranges(DefaultForm, BlankGrid).st)
    /\ file = NoFile
    /\ dialog = <<>>
    /\ last = Did("__init__", "ok")
    /\ steps = 0
    /\ V1Idle /\ GenIdle

\* the operator fills in the axis, mode, count and range fields
Configure(f) ==
    /\ variant = "v2" /\ Step
    /\ x_axis_var' = f.x_axis_var
    /\ y_axis_var' = f.y_axis_var
    /\ qpulse_mode' = f.qpulse_mode
    /\ ranges' = f.ranges
    /\ x_counts_var' = f.x_counts_var
    /\ y_counts_var' = f.y_counts_var
    /\ dialog' = <<>>
    /\ last' = Did("configure", "ok")
    /\ UNCHANGED <<variant, notes, buttons, tabs, file, gridVars, global_entries, v1Vars, gen>>

\* the operator types into an enabled global entry
EditGlobal(k, text) ==
    /\ variant = "v2" /\ Step
    /\ k \notin DisabledEntries(x_axis_var, y_axis_var)
    /\ global_entries' = [global_entries EXCEPT ![k] = text]
    /\ dialog' = <<>>
    /\ last' = Did("edit_global", "ok")
    /\ UNCHANGED <<variant, notes, buttons, tabs, file, formVars, gridVars, v1Vars, gen>>

\* the state the handler leaves, on the outcome ap of apply_ranges
SetApplied(ap) ==
    /\ SetGridState(ap.st)
    /\ dialog' = ap.msgs
    /\ last' = Did("apply_ranges", IF ap.built THEN "built" ELSE "error")

\* the button "Apply Axes & Ranges"; confirm is the answer to the question
ApplyRanges(confirm) ==
    /\ variant = "v2" /\ Step
    /\ IF ~confirm
       THEN /\ dialog' = <<>>
            /\ last' = Did("apply_ranges", "declined")
            /\ UNCHANGED <<notes, buttons, tabs, gridVars>>
       ELSE SetApplied(apply_ranges(Form, GridState))
    /\ UNCHANGED <<variant, file, formVars, global_entries, v1Vars, gen>>

\* a click on a cell and the text the dialog returns
EditNote(key, text) ==
    /\ variant = "v2" /\ Step
    /\ HasButton(buttons, key)
    /\ notes' = edit_note(notes, key, text, MAX_NOTE_LENGTH)
    /\ dialog' = <<>>
    /\ last' = Did("edit_note", EditResult(notes, key, text, MAX_NOTE_LENGTH))
    /\ UNCHANGED <<variant, buttons, tabs, file, v2Vars, v1Vars, gen>>

\* the button "Clear Notes"
ClearAll(confirm) ==
    /\ variant = "v2" /\ Step
    /\ notes' = IF confirm THEN clear_all(notes) ELSE notes
    /\ dialog' = <<>>
    /\ last' = Did("clear_all", IF confirm THEN "cleared" ELSE "declined")
    /\ UNCHANGED <<variant, buttons, tabs, file, v2Vars, v1Vars, gen>>

\* the button "Export CSV"; chosen is whether a path was picked
ExportToCsv(chosen, today) ==
    /\ variant = "v2" /\ Step
    /\ IF NothingToExport(notes)
       THEN /\ dialog' = <<Msg("showinfo", "Export")>>
            /\ last' = Did("export_to_csv", "nothing to export")
            /\ file' = file
       ELSE IF ~chosen
       THEN /\ dialog' = <<>>
            /\ last' = Did("export_to_csv", "no path")
            /\ file' = file
       ELSE IF ExportIndexError(GridState)
       \* raised outside the try: no box, no file
       THEN /\ dialog' = <<>>
            /\ last' = Did("export_to_csv", "IndexError")
            /\ file' = file
       ELSE /\ file' = ExportFile(today, Form, GridState, global_entries)
            /\ dialog' = <<Msg("showinfo", "Success")>>
            /\ last' = Did("export_to_csv", "written")
    /\ UNCHANGED <<variant, notes, buttons, tabs, v2Vars, v1Vars, gen>>

\* the state the handler leaves, on the outcome ld of load_from_csv
SetLoaded(ld) ==
    /\ x_axis_var' = ld.form.x_axis_var
    /\ y_axis_var' = ld.form.y_axis_var
    /\ qpulse_mode' = ld.form.qpulse_mode
    /\ ranges' = ld.form.ranges
    /\ x_counts_var' = ld.form.x_counts_var
    /\ y_counts_var' = ld.form.y_counts_var
    /\ SetGridState(ld.st)
    /\ global_entries' = ld.ge
    /\ dialog' = ld.msgs
    /\ last' = [op |-> "load_from_csv", result |-> "loaded", loaded |-> ld.loaded]

\* the button "Load CSV"; chosen is whether a file was picked
LoadFromCsv(chosen) ==
    /\ variant = "v2" /\ Step
    /\ file.exists
    /\ IF ~chosen
       THEN /\ dialog' = <<>>
            /\ last' = Did("load_from_csv", "no path")
            /\ UNCHANGED <<notes, buttons, tabs, v2Vars>>
       ELSE SetLoaded(load_from_csv(file, Form, GridState, global_entries))
    /\ UNCHANGED <<variant, file, v1Vars, gen>>

NextV2 ==
    \/ \E f \in Forms : Configure(f)
    \/ \E g \in GlobalInputs : EditGlobal(g[1], g[2])
    \/ \E confirm \in BOOLEAN : ApplyRanges(confirm)
    \/ \E key \in EditKeys, text \in NoteInputs \cup {None} : EditNote(key, text)
    \/ \E confirm \in BOOLEAN : ClearAll(confirm)
    \/ \E chosen \in BOOLEAN, today \in Dates : ExportToCsv(chosen, today)
    \/ \E chosen \in BOOLEAN : LoadFromCsv(chosen)


(***************************************************************************)
(* grid_v1: ranges, grids and notes.                                       *)
(***************************************************************************)
MAX_NOTE_LENGTH_V1 == 12

NUM_STEPS == 20

Max(a, b) == IF a > b THEN a ELSE b

\* list(range(a, b, step)) for step >= 1
RangeList(a, b, step) ==
    LET n == IF b > a THEN (b - a + step - 1) \div step ELSE 0
    IN  [i \in 1..n |-> a + (i - 1) * step]

\* max(1, (q_end - q_start) // (num_steps - 1))
QStep(q_start, q_end) == Max(1, (q_end - q_start) \div (NUM_STEPS - 1))

\* the fallback lists of the except branch
FallbackFreq ==
    [i \in 1..NUM_STEPS |-> FormatFixed((3800 - (i - 1) * 190) * SCALE, SCALE, 1)]

FallbackQ1 == RangeList(1, 21, 1)

FallbackQ2 == RangeList(21, 41, 1)

DefaultRangeVars ==
    [freq_start |-> <<"3", "8", "0", "0", ".", "0">>,
     freq_end   |-> <<"1", "0", "0", ".", "0">>,
     q1_start   |-> <<"1">>,
     q1_end     |-> <<"2", "0", "0">>,
     q2_start   |-> <<"2", "0", "1">>,
     q2_end     |-> <<"5", "0", "0">>]

\* create_grid for both tabs
V1Tabs(freq_labels, q1, q2) ==
    [t \in {1, 2} |-> [x |-> IF t = 1 THEN q1 ELSE q2, y |-> freq_labels]]

\* the button of key is on screen: a cell of a current tab
Live(tb, key) ==
    /\ key[1] \in DOMAIN tb
    /\ key[2] < Len(tb[key[1]].y)
    /\ key[3] < Len(tb[key[1]].x)

\* clear_all of grid_v1 reconfigures the button of every stored key before it
\* empties the store; a key whose button went with a destroyed tab frame
\* makes config raise TclError, and the store is left as it was
ClearRaises(n, b, tb) == \E key \in DOMAIN n : HasButton(b, key) /\ ~Live(tb, key)

clear_all_v1(n, b, tb) == IF ClearRaises(n, b, tb) THEN n ELSE clear_all(n)

\* apply_ranges of grid_v1 after the confirmation, on the range fields rv and
\* the state st = [current_freq_labels, current_qpulse1, current_qpulse2,
\* tabs, buttons, notes]; raised says that TclError left the handler
\* lines 229-242: both tabs are rebuilt from tb, then clear_all runs
ApplyBuiltV1(st, labels, q1, q2, tb, b2, silent) ==
    [st |-> [current_freq_labels |-> labels,
             current_qpulse1 |-> q1,
             current_qpulse2 |-> q2,
             tabs    |-> tb,
             buttons |-> b2,
             notes   |-> clear_all_v1(st.notes, b2, tb)],
     msgs |-> IF silent \/ ClearRaises(st.notes, b2, tb) THEN <<>>
              ELSE <<Msg("showinfo", "Success")>>,
     built |-> TRUE, raised |-> ClearRaises(st.notes, b2, tb)]

ApplyListsV1(st, labels, q1, q2, tb, silent) ==
    ApplyBuiltV1(st, labels, q1, q2, tb, st.buttons \cup TabKeys(tb), silent)

\* lines 212-220, on the parsed fields
ApplyParsedV1(st, f_start, f_end, q1_start, q1_end, q2_start, q2_end, silent) ==
    IF ~(f_start.ok /\ f_end.ok /\ q1_start.ok /\ q1_end.ok /\ q2_start.ok /\ q2_end.ok)
    \* "Using defaults": the lists are replaced, the grids and notes stay
    THEN [st |-> [st EXCEPT !.current_freq_labels = FallbackFreq,
                            !.current_qpulse1 = FallbackQ1,
                            !.current_qpulse2 = FallbackQ2],
          msgs |-> <<Msg("showerror", "Invalid Range")>>,
          built |-> FALSE, raised |-> FALSE]
    ELSE ApplyListsV1(st,
            [i \in 1..NUM_STEPS |->
                FormatFixed(SampleNum(f_start.val, f_end.val, NUM_STEPS, i - 1),
                            SampleDen(NUM_STEPS), 1)],
            RangeList(q1_start.val, q1_end.val + 1, QStep(q1_start.val, q1_end.val)),
            RangeList(q2_start.val, q2_end.val + 1, QStep(q2_start.val, q2_end.val)),
            V1Tabs([i \in 1..NUM_STEPS |->
                       FormatFixed(SampleNum(f_start.val, f_end.val, NUM_STEPS, i - 1),
                                   SampleDen(NUM_STEPS), 1)],
                   RangeList(q1_start.val, q1_end.val + 1, QStep(q1_start.val, q1_end.val)),
                   RangeList(q2_start.val, q2_end.val + 1, QStep(q2_start.val, q2_end.val))),
            silent)

apply_ranges_v1(rv, st, silent) ==
    ApplyParsedV1(st, ParseFloat(rv.freq_start), ParseFloat(rv.freq_end),
                  ParseInt(rv.q1_start), ParseInt(rv.q1_end),
                  ParseInt(rv.q2_start), ParseInt(rv.q2_end), silent)

GridStateV1 == [current_freq_labels |-> current_freq_labels,
                current_qpulse1 |-> current_qpulse1,
                current_qpulse2 |-> current_qpulse2,
                tabs |-> tabs, buttons |-> buttons, notes |-> notes]

\* the same assignment in the initial state
SetInitV1(st) ==
    /\ current_freq_labels = st.current_freq_labels
    /\ current_qpulse1 = st.current_qpulse1
    /\ current_qpulse2 = st.current_qpulse2
    /\ tabs = st.tabs
    /\ buttons = st.buttons
    /\ notes = st.notes

SetGridStateV1(st) ==
    /\ current_freq_labels' = st.current_freq_labels
    /\ current_qpulse1' = st.current_qpulse1
    /\ current_qpulse2' = st.current_qpulse2
    /\ tabs' = st.tabs
    /\ buttons' = st.buttons
    /\ notes' = st.notes

(***************************************************************************)
(* grid_v1: settings, export_to_csv and load_from_csv.                     *)
(***************************************************************************)
PARAM_LABELS == <<"Speed (mm/s)", "Max Power (%)", "Line interval (mm)", "Number of passes">>

ParamLabelSet == {PARAM_LABELS[i] : i \in 1..Len(PARAM_LABELS)}

DefaultTitleV1 == TitlePrefix \o ConstructionDay

DefaultParamEntries ==
    [k \in ParamLabelSet |->
        CASE k = "Speed (mm/s)"       -> <<"3", "0", "0", "0">>
          [] k = "Max Power (%)"      -> <<"2", "0">>
          [] k = "Line interval (mm)" -> <<"0", ".", "0", "0", "2", "0">>
          [] k = "Number of passes"   -> <<"1", "0">>]

DefaultScanVars ==
    [mode |-> <<"F", "i", "l", "l">>, angle_inc |-> <<"0">>, auto_rotate |-> <<"0">>,
     bi_dir |-> FALSE, cross_hatch |-> FALSE]

\* get_params_dict
get_params_dict(title, pe) ==
    [title  |-> Strip(title),
     speed  |-> Strip(pe["Speed (mm/s)"]),
     power  |-> Strip(pe["Max Power (%)"]),
     li     |-> Strip(pe["Line interval (mm)"]),
     passes |-> Strip(pe["Number of passes"])]

COLUMNS_V1 == <<"Desc.", "Sub-layer name", "Freq.", "Max power", "Q-pulse", "LI">>

ColumnSetV1 == {COLUMNS_V1[i] : i \in 1..Len(COLUMNS_V1)}

SpdMark == <<" ", "(", "S", "p", "d", ":", " ">>

Dash == <<" ", "-", " ">>

ColonSpace == <<":", " ">>

\* the Desc. text of line 310
Desc(text, params, ns) ==
    text \o SpdMark \o params.speed
         \o Dash \o <<"P", "w", "r">> \o ColonSpace \o params.power
         \o Dash \o <<"L", "I">> \o ColonSpace \o params.li
         \o Dash \o <<"Q", "p">> \o ColonSpace \o NatToStr(ns) \o <<")">>

\* the q-pulse list of a tab
QPulseOf(g, tab) == IF tab = 1 THEN g.current_qpulse1 ELSE g.current_qpulse2

ExportRowV1(key, text, g, params) ==
    LET freq == g.current_freq_labels[key[2] + 1]
        ns   == QPulseOf(g, key[1])[key[3] + 1]
    IN  [col \in ColumnSetV1 |->
            CASE col = "Desc."          -> Desc(text, params, ns)
              [] col = "Sub-layer name" -> text
              [] col = "Freq."          -> freq
              [] col = "Max power"      -> params.power
              [] col = "Q-pulse"        -> NatToStr(ns)
              [] col = "LI"             -> params.li]

\* an index of lines 306-307 is outside the current lists
ExportIndexErrorV1(g) ==
    \E k \in DOMAIN g.notes :
        k[2] >= Len(g.current_freq_labels) \/ k[3] >= Len(QPulseOf(g, k[1]))

ExportRowsV1(g, params) ==
    LET ks == SortedKeys(DOMAIN g.notes)
    IN  [i \in 1..Len(ks) |-> ExportRowV1(ks[i], g.notes[ks[i]], g, params)]

YesNo(b) == IF b THEN <<"Y", "e", "s">> ELSE <<"N", "o">>

\* the metadata lines 324-335
ExportMetaV1(params, rv, sv) ==
    << <<<<"Title">>, params.title>>,
       <<<<"Freq Start">>, rv.freq_start>>,
       <<<<"Freq End">>, rv.freq_end>>,
       <<<<"Q1 Start">>, rv.q1_start>>,
       <<<<"Q1 End">>, rv.q1_end>>,
       <<<<"Q2 Start">>, rv.q2_start>>,
       <<<<"Q2 End">>, rv.q2_end>>,
       <<<<"Mode">>, sv.mode>>,
       <<<<"Angle Increment">>, sv.angle_inc>>,
       <<<<"Auto Rotate">>, sv.auto_rotate>>,
       <<<<"Bi-directional">>, YesNo(sv.bi_dir)>>,
       <<<<"Cross-hatch">>, YesNo(sv.cross_hatch)>> >>

ExportFileV1(title, pe, rv, sv, g) ==
    [exists |-> TRUE,
     meta   |-> ExportMetaV1(get_params_dict(title, pe), rv, sv),
     header |-> COLUMNS_V1,
     rows   |-> ExportRowsV1(g, get_params_dict(title, pe))]

\* s.find(pat): the first position where pat starts in s, 0 when there is none
IndexOf(s, pat) ==
    LET hits == {i \in 1..(Len(s) - Len(pat) + 1) : SubSeq(s, i, i + Len(pat) - 1) = pat}
    IN  IF hits = {} THEN 0 ELSE CHOOSE i \in hits : \A j \in hits : i <= j

RECURSIVE SplitOn(_, _)
\* s.split(pat)
SplitOn(s, pat) ==
    LET i == IndexOf(s, pat)
    IN  IF i = 0 THEN <<s>>
        ELSE <<SubSeq(s, 1, i - 1)>> \o SplitOn(SubSeq(s, i + Len(pat), Len(s)), pat)

\* s.rstrip(c)
RStrip(s, c) ==
    LET keep == {i \in 1..Len(s) : s[i] # c}
        n    == IF keep = {} THEN 0 ELSE CHOOSE i \in keep : \A j \in keep : j <= i
    IN  SubSeq(s, 1, n)

\* metadata[key], stripped as the line parser leaves it, or the old value
MetaStripOr(meta, key, old) == IF HasMeta(meta, key) THEN Strip(MetaGet(meta, key)) ELSE old

\* lines 365-386: the range fields and scan settings after the metadata is
\* applied; a metadata value is stripped when its line is parsed
LoadRangeVars(meta, rv) ==
    [freq_start |-> MetaStripOr(meta, <<"Freq Start">>, rv.freq_start),
     freq_end   |-> MetaStripOr(meta, <<"Freq End">>, rv.freq_end),
     q1_start   |-> MetaStripOr(meta, <<"Q1 Start">>, rv.q1_start),
     q1_end     |-> MetaStripOr(meta, <<"Q1 End">>, rv.q1_end),
     q2_start   |-> MetaStripOr(meta, <<"Q2 Start">>, rv.q2_start),
     q2_end     |-> MetaStripOr(meta, <<"Q2 End">>, rv.q2_end)]

LoadScanVars(meta, sv) ==
    [mode        |-> MetaStripOr(meta, <<"Mode">>, sv.mode),
     angle_inc   |-> MetaStripOr(meta, <<"Angle Increment">>, sv.angle_inc),
     auto_rotate |-> MetaStripOr(meta, <<"Auto Rotate">>, sv.auto_rotate),
     bi_dir      |-> IF HasMeta(meta, <<"Bi-directional">>)
                     THEN Strip(MetaGet(meta, <<"Bi-directional">>)) = YesNo(TRUE)
                     ELSE sv.bi_dir,
     cross_hatch |-> IF HasMeta(meta, <<"Cross-hatch">>)
                     THEN Strip(MetaGet(meta, <<"Cross-hatch">>)) = YesNo(TRUE)
                     ELSE sv.cross_hatch]

\* data rows: the lines that do not start with "#"
DataRowsV1(rows) ==
    SelectSeq(rows, LAMBDA row : ~RowStartsWithHash(row, "Desc.", ","))

\* lines 402-414: speed, power and line interval read back from the Desc. of
\* the first row; an exception keeps what was written before it
LoadParamsOf(pe, parts, pw, li) ==
    IF Len(pw) < 2
    \* the power entry is emptied before the failing index
    THEN [pe EXCEPT !["Speed (mm/s)"] = parts[1], !["Max Power (%)"] = <<>>]
    ELSE IF Len(li) < 2
    THEN [pe EXCEPT !["Speed (mm/s)"] = parts[1], !["Max Power (%)"] = pw[2],
                    !["Line interval (mm)"] = <<>>]
    ELSE [pe EXCEPT !["Speed (mm/s)"] = parts[1], !["Max Power (%)"] = pw[2],
                    !["Line interval (mm)"] = RStrip(li[2], ")")]

LoadParamsParts(pe, parts) ==
    LoadParamsOf(pe, parts,
                 IF Len(parts) >= 2 THEN SplitOn(parts[2], ColonSpace) ELSE <<>>,
                 IF Len(parts) >= 3 THEN SplitOn(parts[3], ColonSpace) ELSE <<>>)

LoadParams(first, pe) ==
    IF "Desc." \notin DOMAIN first \/ IndexOf(first["Desc."], SpdMark) = 0 THEN pe
    ELSE LoadParamsParts(pe, SplitOn(SplitOn(first["Desc."], SpdMark)[2], Dash))

\* round(float(text), 1), in tenths
RoundTenths(val) == RoundHalfEven(val, SCALE \div 10)

\* the index of the first label whose rounded value equals saved, 0 for none
\* round(float(label), 1) in tenths, -1 when the label does not parse
TenthsOf(f) == IF f.ok THEN RoundTenths(f.val) ELSE 0 - 1

FirstFreq(labels, saved) ==
    FirstIndex([i \in 1..Len(labels) |-> TenthsOf(ParseFloat(labels[i]))], saved)

\* one row of the loop of lines 418-451: [hit, key, note]
LoadRowAtV1(text, freq, q, r, c1, c2, g) ==
    IF text = <<>> \/ ~freq.ok \/ r = 0 \/ ~q.ok \/ (c1 = 0 /\ c2 = 0)
    THEN [hit |-> FALSE, raises |-> FALSE, key |-> <<0, 0, 0>>, note |-> <<>>]
    ELSE IF ~HasButton(g.buttons, IF c1 # 0 THEN <<1, r - 1, c1 - 1>> ELSE <<2, r - 1, c2 - 1>>)
    THEN [hit |-> FALSE, raises |-> FALSE, key |-> <<0, 0, 0>>, note |-> <<>>]
    ELSE [hit |-> TRUE, raises |-> FALSE,
          key |-> IF c1 # 0 THEN <<1, r - 1, c1 - 1>> ELSE <<2, r - 1, c2 - 1>>,
          note |-> text]

LoadRowParsedV1(text, freq, q, g) ==
    LoadRowAtV1(text, freq, q,
                FirstFreq(g.current_freq_labels, RoundTenths(freq.val)),
                FirstIndex(g.current_qpulse1, RoundHalfEven(q.val, SCALE)),
                FirstIndex(g.current_qpulse2, RoundHalfEven(q.val, SCALE)),
                g)

\* a line with fewer fields than the header: csv.DictReader maps the missing
\* columns to None, and None.strip() at line 419 raises outside the inner
\* try blocks
ShortRowV1(row) ==
    \/ "Sub-layer name" \notin DOMAIN row
    \/ Strip(row["Sub-layer name"]) # <<>> /\ ~({"Freq.", "Q-pulse"} \subseteq DOMAIN row)

LoadRowV1(row, g) ==
    IF ShortRowV1(row)
    THEN [hit |-> FALSE, raises |-> TRUE, key |-> <<0, 0, 0>>, note |-> <<>>]
    ELSE IF Strip(row["Sub-layer name"]) = <<>>
    THEN [hit |-> FALSE, raises |-> FALSE, key |-> <<0, 0, 0>>, note |-> <<>>]
    ELSE LoadRowParsedV1(Strip(row["Sub-layer name"]), ParseFloat(row["Freq."]),
                         ParseFloat(row["Q-pulse"]), g)

\* one pass of the loop body on the row outcome res: the store, the count,
\* and whether config raised TclError on a button that is no longer on screen
LoadStepV1(acc, res, tb) ==
    IF res.raises THEN [acc EXCEPT !.raised = TRUE]
    ELSE IF ~res.hit THEN acc
    ELSE IF ~Live(tb, res.key)
    THEN [acc EXCEPT !.notes = NotesSet(acc.notes, res.key, res.note), !.raised = TRUE]
    ELSE [acc EXCEPT !.notes = NotesSet(acc.notes, res.key, res.note),
                     !.loaded = acc.loaded + 1]

RECURSIVE LoadRowsV1(_, _, _, _)
\* the loop over the rows, left when a row raises
LoadRowsV1(rows, i, g, acc) ==
    IF i > Len(rows) \/ acc.raised THEN acc
    ELSE LoadRowsV1(rows, i + 1, g, LoadStepV1(acc, LoadRowV1(rows[i], g), g.tabs))

\* load_from_csv of grid_v1 once a file is chosen
\* lines 416 onwards, on the outcome res of the loop over the rows
LoadFinishV1(fl, base, pe2, res) ==
    IF res.raised
    THEN [base EXCEPT !.pe = pe2, !.st.notes = res.notes,
                      !.msgs = base.msgs \o <<Msg("showerror", "Load Error")>>,
                      !.result = "Load Error"]
    ELSE [base EXCEPT !.pe = pe2, !.st.notes = res.notes,
                      !.title = MetaStripOr(fl.meta, <<"Title">>, base.title),
                      !.loaded = res.loaded,
                      !.msgs = base.msgs \o <<Msg("showinfo", "Load Complete")>>]

\* lines 390 onwards, on the data rows; base holds the fields restored from the
\* metadata and the state the silent apply_ranges left
LoadDataV1(fl, base, rows) ==
    IF base.raised \/ (rows # <<>> /\ ClearRaises(base.st.notes, base.st.buttons, base.st.tabs))
    THEN [base EXCEPT !.msgs = base.msgs \o <<Msg("showerror", "Load Error")>>,
                      !.result = "Load Error"]
    ELSE IF rows = <<>>
    THEN [base EXCEPT !.msgs = base.msgs \o <<Msg("showinfo", "Load")>>,
                      !.result = "no rows"]
    ELSE LoadFinishV1(fl, base, LoadParams(rows[1], base.pe),
                      LoadRowsV1(rows, 1, base.st,
                                 [notes |-> clear_all(base.st.notes), loaded |-> 0,
                                  raised |-> FALSE]))

\* lines 388 onwards, on the outcome ap of the silent apply_ranges
LoadAppliedV1(fl, rv2, sv2, title, pe, ap) ==
    LoadDataV1(fl,
               [rv |-> rv2, sv |-> sv2, title |-> title, pe |-> pe, st |-> ap.st,
                loaded |-> 0, msgs |-> ap.msgs, result |-> "loaded",
                raised |-> ap.raised],
               DataRowsV1(fl.rows))

load_from_csv_v1(fl, rv, sv, title, pe, st) ==
    LoadAppliedV1(fl, LoadRangeVars(fl.meta, rv), LoadScanVars(fl.meta, sv), title, pe,
                  apply_ranges_v1(LoadRangeVars(fl.meta, rv), st, TRUE))

(***************************************************************************)
(* grid_v1: the window after construction, and its handlers.               *)
(***************************************************************************)
BlankGridV1 == [current_freq_labels |-> <<>>, current_qpulse1 |-> <<>>,
                current_qpulse2 |-> <<>>,
                tabs |-> NoTabs, buttons |-> {}, notes |-> EmptyNotes]

\* the fields of grid_v2 stay idle
V2Idle ==
    /\ x_axis_var = "" /\ y_axis_var = "" /\ qpulse_mode = "" /\ ranges = <<>>
    /\ x_counts_var = <<>> /\ y_counts_var = <<>>
    /\ current_values_x = <<>> /\ current_values_y = <<>>
    /\ current_x_param = "" /\ current_y_param = ""
    /\ global_entries = <<>>

InitV1 ==
    /\ variant = "v1"
    /\ range_vars = DefaultRangeVars
    /\ scan_vars = DefaultScanVars
    /\ title_entry = DefaultTitleV1
    /\ param_entries = DefaultParamEntries
    /\ SetInitV1(apply_ranges_v1(DefaultRangeVars, BlankGridV1, TRUE).st)
    /\ file = NoFile
    /\ dialog = <<>>
    /\ last = Did("__init__", "ok")
    /\ steps = 0
    /\ V2Idle /\ GenIdle

\* the range fields the operator types before pressing Apply
RangeFormsV1 ==
    { \* Grid 1 ends on the pulse width Grid 2 starts on: 181..200 and 200, 215, ..
      [DefaultRangeVars EXCEPT !.q1_start = <<"1", "8", "1">>, !.q2_start = <<"2", "0", "0">>],
      \* a descending Q1 range (no column) and a short Q2 range (1..5)
      [DefaultRangeVars EXCEPT !.q1_start = <<"2", "0", "0">>, !.q1_end = <<"1">>,
                               !.q2_start = <<"1">>, !.q2_end = <<"5">>],
      \* the frequency end does not parse
      [DefaultRangeVars EXCEPT !.freq_end = TxtBad] }

\* the title, parameter entries and scan settings the operator types
SettingsV1 ==
    { [title |-> <<" ", "T", "1">>,
       pe    |-> [DefaultParamEntries EXCEPT !["Speed (mm/s)"] = <<"2", "5", "0", "0", " ">>,
                                             !["Number of passes"] = <<"5">>],
       sv    |-> [DefaultScanVars EXCEPT !.mode = <<"L", "i", "n", "e">>,
                                         !.angle_inc = <<"1", "5">>,
                                         !.bi_dir = TRUE]] }

ConfigureV1(rv) ==
    /\ variant = "v1" /\ Step
    /\ range_vars' = rv
    /\ dialog' = <<>>
    /\ last' = Did("configure", "ok")
    /\ UNCHANGED <<variant, notes, buttons, tabs, file, v2Vars, scan_vars, title_entry,
                   param_entries, v1GridVars, gen>>

EditSettingsV1(s) ==
    /\ variant = "v1" /\ Step
    /\ title_entry' = s.title
    /\ param_entries' = s.pe
    /\ scan_vars' = s.sv
    /\ dialog' = <<>>
    /\ last' = Did("edit_settings", "ok")
    /\ UNCHANGED <<variant, notes, buttons, tabs, file, v2Vars, range_vars, v1GridVars, gen>>

\* the state the handler leaves, on the outcome ap of apply_ranges
SetAppliedV1(ap) ==
    /\ SetGridStateV1(ap.st)
    /\ dialog' = ap.msgs
    /\ last' = Did("apply_ranges",
                   IF ap.raised THEN "TclError"
                   ELSE IF ap.built THEN "built" ELSE "error")

\* the button "Apply Ranges (clears notes)"
ApplyRangesV1(confirm) ==
    /\ variant = "v1" /\ Step
    /\ IF ~confirm
       THEN /\ dialog' = <<>>
            /\ last' = Did("apply_ranges", "declined")
            /\ UNCHANGED <<notes, buttons, tabs, v1GridVars>>
       ELSE SetAppliedV1(apply_ranges_v1(range_vars, GridStateV1, FALSE))
    /\ UNCHANGED <<variant, file, v2Vars, v1FormVars, gen>>

\* a click on a cell and the text the dialog returns
EditNoteV1(key, text) ==
    /\ variant = "v1" /\ Step
    /\ notes' = edit_note(notes, key, text, MAX_NOTE_LENGTH_V1)
    /\ dialog' = <<>>
    /\ last' = Did("edit_note", EditResult(notes, key, text, MAX_NOTE_LENGTH_V1))
    /\ UNCHANGED <<variant, buttons, tabs, file, v2Vars, v1Vars, gen>>

\* the button "Clear Notes"
ClearAllV1(confirm) ==
    /\ variant = "v1" /\ Step
    /\ notes' = IF confirm THEN clear_all_v1(notes, buttons, tabs) ELSE notes
    /\ dialog' = <<>>
    /\ last' = Did("clear_all",
                   IF ~confirm THEN "declined"
                   ELSE IF ClearRaises(notes, buttons, tabs) THEN "TclError" ELSE "cleared")
    /\ UNCHANGED <<variant, buttons, tabs, file, v2Vars, v1Vars, gen>>

\* the button "Export CSV"; chosen is whether a path was picked
ExportToCsvV1(chosen) ==
    /\ variant = "v1" /\ Step
    /\ IF NothingToExport(notes)
       THEN /\ dialog' = <<Msg("showinfo", "Export")>>
            /\ last' = Did("export_to_csv", "nothing to export")
            /\ file' = file
       ELSE IF ~chosen
       THEN /\ dialog' = <<>>
            /\ last' = Did("export_to_csv", "no path")
            /\ file' = file
       ELSE IF ExportIndexErrorV1(GridStateV1)
       \* raised outside the try: no box, no file
       THEN /\ dialog' = <<>>
            /\ last' = Did("export_to_csv", "IndexError")
            /\ file' = file
       ELSE /\ file' = ExportFileV1(title_entry, param_entries, range_vars, scan_vars,
                                    GridStateV1)
            /\ dialog' = <<Msg("showinfo", "Success")>>
            /\ last' = Did("export_to_csv", "written")
    /\ UNCHANGED <<variant, notes, buttons, tabs, v2Vars, v1Vars, gen>>

\* the state the handler leaves, on the outcome ld of load_from_csv
SetLoadedV1(ld) ==
    /\ range_vars' = ld.rv
    /\ scan_vars' = ld.sv
    /\ title_entry' = ld.title
    /\ param_entries' = ld.pe
    /\ SetGridStateV1(ld.st)
    /\ dialog' = ld.msgs
    /\ last' = [op |-> "load_from_csv", result |-> ld.result, loaded |-> ld.loaded]

\* the button "Load CSV"; chosen is whether a file was picked
LoadFromCsvV1(chosen) ==
    /\ variant = "v1" /\ Step
    /\ file.exists
    /\ IF ~chosen
       THEN /\ dialog' = <<>>
            /\ last' = Did("load_from_csv", "no path")
            /\ UNCHANGED <<notes, buttons, tabs, v1Vars>>
       ELSE SetLoadedV1(load_from_csv_v1(file, range_vars, scan_vars, title_entry,
                                         param_entries, GridStateV1))
    /\ UNCHANGED <<variant, file, v2Vars, gen>>

NextV1 ==
    \/ \E rv \in RangeFormsV1 : ConfigureV1(rv)
    \/ \E s \in SettingsV1 : EditSettingsV1(s)
    \/ \E confirm \in BOOLEAN : ApplyRangesV1(confirm)
    \/ \E key \in EditKeys, text \in NoteInputs \cup {None} : EditNoteV1(key, text)
    \/ \E confirm \in BOOLEAN : ClearAllV1(confirm)
    \/ \E chosen \in BOOLEAN : ExportToCsvV1(chosen)
    \/ \E chosen \in BOOLEAN : LoadFromCsvV1(chosen)

Init == InitV1 \/ InitV2

Next == NextV1 \/ NextV2

Spec == Init /\ [][Next]_vars

(***************************************************************************)
(* The axis value generator of grid_v2 on its own: apply_ranges raises the *)
(* requested count to 2 and calls _generate_values on the range fields.    *)
(***************************************************************************)
\* range texts per parameter; on them the decimal arithmetic of the model
\* and the binary arithmetic of the program give the same texts
GenTexts(param) ==
    CASE param = "Speed"         -> {<<"4", "0", "0", "0">>, <<"1", "0", "0", "0">>}
      [] param = "Power"         -> {<<"9", "0">>, <<"1", "0">>}
      [] param = "Frequency"     -> {<<"3", "8", "0", "0", ".", "0">>,
                                     <<"1", "0", "0", ".", "0">>, Txt150}
      [] param = "Line Interval" -> {<<"0", ".", "0", "0", "2", "0">>,
                                     <<"0", ".", "0", "2", "0">>,
                                     <<"0", ".", "0", "2", "0", "0">>}
      [] param = "Passes"        -> {<<"1">>, <<"1", "0">>}
      [] param = "Q-Pulse"       -> {Txt150, Txt151, <<"2", "0", "0">>}

\* the counts typed into the count field
GenCounts == 0..MaxCount \cup {DEFAULT_X_COUNTS}

GenInputs ==
    UNION {[phase : {"input"}, param : {p}, start : GenTexts(p) \cup {TxtBad},
            end : GenTexts(p), counts : GenCounts,
            out : {[ok |-> FALSE, vals |-> <<>>]}] : p \in ParamSet}

AppIdle ==
    /\ notes = EmptyNotes /\ buttons = {} /\ tabs = NoTabs /\ file = NoFile
    /\ dialog = <<>> /\ last = Did("__init__", "ok") /\ steps = 0

InitGen ==
    /\ variant = "gen"
    /\ gen \in GenInputs
    /\ AppIdle /\ V1Idle /\ V2Idle

\* lines 493-497: max(2, counts), then _generate_values
Generate ==
    /\ variant = "gen"
    /\ gen.phase = "input"
    /\ gen' = [gen EXCEPT !.phase = "done",
                          !.out = _generate_values(
                                      RangesWith(gen.param, gen.start, gen.end),
                                      gen.param, ClampCount(gen.counts))]
    /\ UNCHANGED <<variant, sharedVars, v2Vars, v1Vars>>

NextGen == Generate

SpecGen == InitGen /\ [][NextGen]_vars

(***************************************************************************)
(* The note dialog on its own, with texts longer than the maximum length.  *)
(***************************************************************************)
LongNoteInputs ==
    NoteInputs \cup {LongRaw(MAX_NOTE_LENGTH), LongRaw(MAX_NOTE_LENGTH_V1)}

\* the session of note edits goes on
MoreNotes == steps < MaxNoteSteps

NextNotes ==
    \/ \E key \in EditKeys, text \in LongNoteInputs \cup {None} :
          MoreNotes /\ EditNote(key, text)
    \/ \E key \in EditKeys, text \in LongNoteInputs \cup {None} :
          MoreNotes /\ EditNoteV1(key, text)
    \/ \E confirm \in BOOLEAN : MoreNotes /\ ClearAll(confirm)
    \/ \E confirm \in BOOLEAN : MoreNotes /\ ClearAllV1(confirm)

SpecNotes == Init /\ [][NextNotes]_vars

(***************************************************************************)
(* Files that were changed on disk between the export and the load: a      *)
(* spreadsheet or an editor rewrote a value, removed a metadata line or    *)
(* cut a data line short.  load_from_csv reads whatever the file holds.    *)
(***************************************************************************)
\* a number as another program writes it: 150 as 150.0, 3800.0 as 3800
Reformat(v) ==
    IF v # <<>> /\ AllDigits(v) THEN v \o <<".", "0">>
    ELSE IF Len(v) > 2 /\ SubSeq(v, Len(v) - 1, Len(v)) = <<".", "0">>
              /\ AllDigits(SubSeq(v, 1, Len(v) - 2))
    THEN SubSeq(v, 1, Len(v) - 2)
    ELSE v

\* the metadata without the lines of key
DropMeta(meta, key) == SelectSeq(meta, LAMBDA l : l[1] # key)

\* the metadata with the value of key replaced
SetMeta(meta, key, val) ==
    [i \in DOMAIN meta |-> IF meta[i][1] = key THEN <<key, val>> ELSE meta[i]]

\* the first data line cut after its first field
CutFirstRow(rows, first) ==
    [i \in DOMAIN rows |-> IF i = 1 THEN [c \in {first} |-> rows[1][c]] ELSE rows[i]]

\* the column col of the first data line rewritten
SetFirstRow(rows, col, val) ==
    [i \in DOMAIN rows |-> IF i = 1 THEN [rows[1] EXCEPT ![col] = val] ELSE rows[i]]

FileEditsV2 == {"reformat x", "drop X_counts", "drop Mode", "drop Q-Pulse_end",
                "drop Y_Axis", "same axes", "other X_Param", "short row", "empty note",
                "long note", "repeat row"}

FileEditsV1 == {"reformat freq", "drop Q1 Start", "drop Mode", "short row", "empty note",
                "long note", "repeat row"}

\* the file fl of grid_v2 after the edit e
EditedV2(fl, e) ==
    CASE e = "reformat x" ->
             [fl EXCEPT !.rows = [i \in DOMAIN fl.rows |->
                 [fl.rows[i] EXCEPT !["X_Value"] = Reformat(fl.rows[i]["X_Value"])]]]
      [] e = "drop X_counts"    -> [fl EXCEPT !.meta = DropMeta(fl.meta, <<"X_counts">>)]
      [] e = "drop Mode"        -> [fl EXCEPT !.meta = DropMeta(fl.meta, <<"Mode">>)]
      [] e = "drop Q-Pulse_end" -> [fl EXCEPT !.meta = DropMeta(fl.meta, <<"Q-Pulse", "_end">>)]
      [] e = "drop Y_Axis"      -> [fl EXCEPT !.meta = DropMeta(fl.meta, <<"Y_Axis">>)]
      [] e = "same axes"        ->
             [fl EXCEPT !.meta = SetMeta(fl.meta, <<"X_Axis">>, MetaGet(fl.meta, <<"Y_Axis">>))]
      [] e = "other X_Param"    -> [fl EXCEPT !.rows = SetFirstRow(fl.rows, "X_Param", "Speed")]
      [] e = "short row"        -> [fl EXCEPT !.rows = CutFirstRow(fl.rows, "Note")]
      [] e = "empty note"       -> [fl EXCEPT !.rows = SetFirstRow(fl.rows, "Note", <<>>)]
      [] e = "long note"        ->
             [fl EXCEPT !.rows = SetFirstRow(fl.rows, "Note", LongRaw(MAX_NOTE_LENGTH))]
      [] e = "repeat row"       -> [fl EXCEPT !.rows = <<fl.rows[1]>> \o fl.rows]

\* the file fl of grid_v1 after the edit e
EditedV1(fl, e) ==
    CASE e = "reformat freq" ->
             [fl EXCEPT !.rows = [i \in DOMAIN fl.rows |->
                 [fl.rows[i] EXCEPT !["Freq."] = Reformat(fl.rows[i]["Freq."])]]]
      [] e = "drop Q1 Start" -> [fl EXCEPT !.meta = DropMeta(fl.meta, <<"Q1 Start">>)]
      [] e = "drop Mode"     -> [fl EXCEPT !.meta = DropMeta(fl.meta, <<"Mode">>)]
      [] e = "short row"     -> [fl EXCEPT !.rows = CutFirstRow(fl.rows, "Desc.")]
      [] e = "empty note"    -> [fl EXCEPT !.rows = SetFirstRow(fl.rows, "Sub-layer name", <<>>)]
      [] e = "long note"     ->
             [fl EXCEPT !.rows = SetFirstRow(fl.rows, "Sub-layer name",
                                             LongRaw(MAX_NOTE_LENGTH_V1))]
      [] e = "repeat row"    -> [fl EXCEPT !.rows = <<fl.rows[1]>> \o fl.rows]

\* the exported file is changed on disk, once, before it is loaded
EditFile(e) ==
    /\ Step
    /\ file.exists /\ last.op = "export_to_csv" /\ last.result = "written"
    /\ \/ variant = "v2" /\ e \in FileEditsV2 /\ file' = EditedV2(file, e)
       \/ variant = "v1" /\ e \in FileEditsV1 /\ file' = EditedV1(file, e)
    /\ dialog' = <<>>
    /\ last' = Did("edit_file", e)
    /\ UNCHANGED <<variant, notes, buttons, tabs, v2Vars, v1Vars, gen>>

(***************************************************************************)
(* show_all_notes: the note lines of the summary box, one per annotation   *)
(* in the order of the sorted keys.                                        *)
(***************************************************************************)
\* grid_v2: the tab, the y and x values and the text of each line
show_all_notes(g) ==
    LET ks == SortedKeys(DOMAIN g.notes)
    IN  [i \in 1..Len(ks) |->
            [tab |-> ks[i][1],
             y   |-> g.current_values_y[ks[i][2] + 1],
             x   |-> g.current_values_x[ks[i][3] + 1],
             text |-> g.notes[ks[i]]]]

\* grid_v1: the tab, the frequency, the pulse width and the text of each line
show_all_notes_v1(g) ==
    LET ks == SortedKeys(DOMAIN g.notes)
    IN  [i \in 1..Len(ks) |->
            [tab |-> ks[i][1],
             y   |-> g.current_freq_labels[ks[i][2] + 1],
             x   |-> QPulseOf(g, ks[i][1])[ks[i][3] + 1],
             text |-> g.notes[ks[i]]]]

\* the button "Show Summary" of either program: the box is shown unless an
\* index of a note is outside the current sequences
ShowAllNotes ==
    /\ Step
    /\ \/ variant = "v2" /\ last' = Did("show_all_notes",
                                        IF ExportIndexError(GridState)
                                        THEN "IndexError" ELSE "shown")
       \/ variant = "v1" /\ last' = Did("show_all_notes",
                                        IF ExportIndexErrorV1(GridStateV1)
                                        THEN "IndexError" ELSE "shown")
    /\ dialog' = IF last'.result = "shown" THEN <<Msg("showinfo", "Summary")>> ELSE <<>>
    /\ UNCHANGED <<variant, notes, buttons, tabs, file, v2Vars, v1Vars, gen>>

NextFiles ==
    \/ \E f \in Forms : Configure(f)
    \/ \E rv \in RangeFormsV1 : ConfigureV1(rv)
    \/ \E key \in EditKeys, text \in NoteInputs : EditNote(key, text)
    \/ \E key \in EditKeys, text \in NoteInputs : EditNoteV1(key, text)
    \/ \E today \in Dates : ExportToCsv(TRUE, today)
    \/ ExportToCsvV1(TRUE)
    \/ \E e \in FileEditsV2 \cup FileEditsV1 : EditFile(e)
    \/ LoadFromCsv(TRUE)
    \/ LoadFromCsvV1(TRUE)
    \/ ShowAllNotes

SpecFiles == Init /\ [][NextFiles]_vars

(***************************************************************************)
(* Properties.                                                             *)
(***************************************************************************)
\* the range, count, mode and axis fields are the ones the grid on screen was
\* built from: pressing Apply now would rebuild the same grid
FormAsApplied ==
    /\ apply_ranges(Form, GridState).built
    /\ apply_ranges(Form, GridState).st.current_values_x = current_values_x
    /\ apply_ranges(Form, GridState).st.current_values_y = current_values_y
    /\ apply_ranges(Form, GridState).st.tabs = tabs
    /\ x_axis_var = current_x_param /\ y_axis_var = current_y_param

FormAsAppliedV1 ==
    /\ apply_ranges_v1(range_vars, GridStateV1, TRUE).built
    /\ apply_ranges_v1(range_vars, GridStateV1, TRUE).st.tabs = tabs
    /\ apply_ranges_v1(range_vars, GridStateV1, TRUE).st.current_freq_labels
           = current_freq_labels
    /\ apply_ranges_v1(range_vars, GridStateV1, TRUE).st.current_qpulse1 = current_qpulse1
    /\ apply_ranges_v1(range_vars, GridStateV1, TRUE).st.current_qpulse2 = current_qpulse2

\* C1: in grid_v2, with a successfully applied grid and a non-empty store,
\* loading the file that export_to_csv has just written leaves the store with
\* exactly the entries it held before the export.
C1_RoundTripV2 ==
    [][(/\ variant = "v2"
        /\ last.op = "export_to_csv" /\ last.result = "written"
        /\ FormAsApplied
        /\ DOMAIN notes # {}
        /\ LoadFromCsv(TRUE))
       => notes' = notes]_vars

\* C2: in grid_v1, with applied ranges, loading the file that Export CSV has
\* just written brings every note back at the same (tab, row, col) with the
\* same text; a note of Grid 2 comes back on Grid 2.
C2_RoundTripV1 ==
    [][(/\ variant = "v1"
        /\ last.op = "export_to_csv" /\ last.result = "written"
        /\ FormAsAppliedV1
        /\ LoadFromCsvV1(TRUE))
       => \A key \in DOMAIN notes : key \in DOMAIN notes' /\ notes'[key] = notes[key]]_vars

\* C3: in grid_v2, apply_ranges with the same parameter selected for both axes
\* shows an error and leaves the value sequences, the axis parameters, the
\* tabs and the annotations as they were.
C3_AxisConflictKeepsState ==
    [][(variant = "v2" /\ x_axis_var = y_axis_var /\ ApplyRanges(TRUE))
       => /\ dialog' = <<Msg("showerror", "Input Error")>>
          /\ UNCHANGED <<current_values_x, current_values_y, current_x_param,
                         current_y_param, tabs, notes>>]_vars

\* an apply_ranges with the same parameter on both axes has run on a window
\* that holds annotations
C3_Witness ==
    /\ variant = "v2"
    /\ last.op = "apply_ranges" /\ last.result = "error"
    /\ x_axis_var = y_axis_var
    /\ DOMAIN notes # {}

\* a range field of a selected axis of grid_v2 does not parse, all else does
RangeUnparseable ==
    /\ x_axis_var # y_axis_var
    /\ ParseInt(x_counts_var).ok /\ ParseInt(y_counts_var).ok
    /\ \E p \in {x_axis_var, y_axis_var} :
          ~ParseFloat(ranges[p].start).ok \/ ~ParseFloat(ranges[p].end).ok

\* a range field of grid_v1 does not parse
RangeUnparseableV1 ==
    \/ ~ParseFloat(range_vars.freq_start).ok \/ ~ParseFloat(range_vars.freq_end).ok
    \/ ~ParseInt(range_vars.q1_start).ok \/ ~ParseInt(range_vars.q1_end).ok
    \/ ~ParseInt(range_vars.q2_start).ok \/ ~ParseInt(range_vars.q2_end).ok

\* C4: in either variant, apply_ranges on a range field that does not parse
\* reports the error and changes neither the value sequences, nor the axis
\* parameters, nor the cells on screen, nor the annotations.
C4_NoPartialMutation ==
    [][(\/ variant = "v2" /\ RangeUnparseable /\ ApplyRanges(TRUE)
        \/ variant = "v1" /\ RangeUnparseableV1 /\ ApplyRangesV1(TRUE))
       => UNCHANGED <<current_values_x, current_values_y, current_x_param, current_y_param,
                      current_freq_labels, current_qpulse1, current_qpulse2,
                      tabs, notes>>]_vars

\* the generator has run on a start and an end that both parse
GenParsed ==
    /\ variant = "gen" /\ gen.phase = "done"
    /\ ParseFloat(gen.start).ok /\ ParseFloat(gen.end).ok

NonIncreasing(vals) ==
    \A i \in 1..(Len(vals) - 1) : ParseFloat(vals[i]).val >= ParseFloat(vals[i + 1]).val

\* C5: in grid_v2, for every parameter, every start and end that parse
\* (ascending, descending or equal) and every requested count (raised to 2 when
\* below), _generate_values returns exactly count elements, the first the
\* rendering of start and the last the rendering of end in the parameter's
\* format, and a descending range gives a non-increasing sequence.
C5_GeneratedSequence ==
    GenParsed =>
        /\ gen.out.ok
        /\ Len(gen.out.vals) = ClampCount(gen.counts)
        /\ gen.out.vals[1] = FormatSample(gen.param, ParseFloat(gen.start).val, SCALE)
        /\ gen.out.vals[Len(gen.out.vals)]
               = FormatSample(gen.param, ParseFloat(gen.end).val, SCALE)
        /\ (ParseFloat(gen.start).val > ParseFloat(gen.end).val
               => NonIncreasing(gen.out.vals))

\* C6: in grid_v2, _generate_values with start equal to end returns, without
\* an error, count elements that are all identical, for every parameter.
C6_EqualRange ==
    (GenParsed /\ ParseFloat(gen.start).val = ParseFloat(gen.end).val) =>
        /\ gen.out.ok
        /\ Len(gen.out.vals) = ClampCount(gen.counts)
        /\ \A i \in 1..Len(gen.out.vals) : gen.out.vals[i] = gen.out.vals[1]

\* the generator has returned the default count of values for a range whose
\* start equals its end
C6_Witness ==
    /\ GenParsed
    /\ ParseFloat(gen.start).val = ParseFloat(gen.end).val
    /\ gen.counts = DEFAULT_X_COUNTS
    /\ Len(gen.out.vals) = DEFAULT_X_COUNTS

\* C7: in both variants, every apply_ranges that regenerates the grid leaves
\* the annotation store empty, whatever it held and whatever the sizes of the
\* old and the new grid.
C7_ApplyDiscardsNotes ==
    [][(\/ variant = "v2" /\ apply_ranges(Form, GridState).built /\ ApplyRanges(TRUE)
        \/ /\ variant = "v1"
           /\ apply_ranges_v1(range_vars, GridStateV1, FALSE).built
           /\ ApplyRangesV1(TRUE))
       => notes' = EmptyNotes]_vars

\* the least k with 2 * k >= n
CeilHalf(n) == CHOOSE k \in 0..n : 2 * k >= n /\ 2 * (k - 1) < n

\* C8: in grid_v2 split mode with n >= 4 x values, the tabs are 1 and 2, they
\* hold the first ceil(n/2) and the remaining x values in order, so that their
\* concatenation is the x sequence (10 and 10 for n = 20), and both use the
\* whole y sequence.
C8_SplitHalves ==
    (/\ variant = "v2"
     /\ last.op = "apply_ranges" /\ last.result = "built"
     /\ qpulse_mode = "Split"
     /\ Len(current_values_x) >= 4) =>
        /\ DOMAIN tabs = {1, 2}
        /\ Len(tabs[1].x) = CeilHalf(Len(current_values_x))
        /\ Len(tabs[2].x) = Len(current_values_x) - CeilHalf(Len(current_values_x))
        /\ tabs[1].x \o tabs[2].x = current_values_x
        /\ (Len(current_values_x) = 20 => Len(tabs[1].x) = 10 /\ Len(tabs[2].x) = 10)
        /\ tabs[1].y = current_values_y /\ tabs[2].y = current_values_y

\* apply_ranges has split an x sequence of odd length
C8_Witness ==
    /\ variant = "v2"
    /\ last.op = "apply_ranges" /\ last.result = "built"
    /\ qpulse_mode = "Split"
    /\ Len(current_values_x) = 5
    /\ DOMAIN tabs = {1, 2}

\* the maximum note length of the running variant
MaxNote == IF variant = "v2" THEN MAX_NOTE_LENGTH ELSE MAX_NOTE_LENGTH_V1

\* t is text without its surrounding whitespace, cut to max characters
TrimmedAndCut(t, text, max) ==
    /\ Len(t) = (IF Len(Strip(text)) > max THEN max ELSE Len(Strip(text)))
    /\ t = SubSeq(Strip(text), 1, Len(t))

\* C9: edit_note stores the entered text trimmed of surrounding whitespace and
\* cut to the maximum length (512 in grid_v2, 12 in grid_v1); an empty trimmed
\* text removes the cell's entry; a cancelled dialog changes nothing; the
\* entries of all other cells stay as they were.
C9_EditNote ==
    [][\A key \in EditKeys, text \in LongNoteInputs \cup {None} :
          (EditNote(key, text) \/ EditNoteV1(key, text)) =>
             /\ \A k \in (DOMAIN notes \cup DOMAIN notes') \ {key} :
                    k \in DOMAIN notes /\ k \in DOMAIN notes' /\ notes'[k] = notes[k]
             /\ text = None => notes' = notes
             /\ (text # None /\ Strip(text) = <<>>) => key \notin DOMAIN notes'
             /\ (text # None /\ Strip(text) # <<>>) =>
                    key \in DOMAIN notes' /\ TrimmedAndCut(notes'[key], text, MaxNote)]_vars

\* a note of exactly the maximum length has been stored
C9_Witness ==
    /\ last.op = "edit_note" /\ last.result = "stored"
    /\ \E k \in DOMAIN notes : Len(notes[k]) = MaxNote

\* C10: export with an empty store shows the "nothing to export" box, writes
\* no file and leaves the grid, the settings and the store as they were.
C10_EmptyExport ==
    [][(/\ DOMAIN notes = {}
        /\ \/ \E chosen \in BOOLEAN, today \in Dates : ExportToCsv(chosen, today)
           \/ \E chosen \in BOOLEAN : ExportToCsvV1(chosen))
       => /\ dialog' = <<Msg("showinfo", "Export")>>
          /\ file' = file
          /\ UNCHANGED <<notes, buttons, tabs, v2Vars, v1Vars>>]_vars

\* export has run on an empty store and no file exists
C10_Witness ==
    /\ last.op = "export_to_csv" /\ last.result = "nothing to export"
    /\ DOMAIN notes = {}
    /\ ~file.exists

\* a and b parse as numbers that are equal after rounding to one decimal place
NumEq(a, b) ==
    /\ ParseFloat(a).ok /\ ParseFloat(b).ok
    /\ RoundTenths(ParseFloat(a).val) = RoundTenths(ParseFloat(b).val)

\* the data row names the axes of the grid g and its values are numerically
\* equal to a column header and a row header of g
RowMatchesNumerically(row, g) ==
    /\ row["X_Param"] = g.current_x_param /\ row["Y_Param"] = g.current_y_param
    /\ \E c \in 1..Len(g.current_values_x) : NumEq(g.current_values_x[c], row["X_Value"])
    /\ \E r \in 1..Len(g.current_values_y) : NumEq(g.current_values_y[r], row["Y_Value"])

\* the store n of the grid g holds the note of the data row under headers
\* numerically equal to the row's values
RowRestored(row, g, n) ==
    \E key \in DOMAIN n :
        /\ NatToStr(key[1]) = row["Tab"]
        /\ NumEq(g.current_values_x[key[3] + 1], row["X_Value"])
        /\ NumEq(g.current_values_y[key[2] + 1], row["Y_Value"])
        /\ n[key] = Strip(row["Note"])

\* C11: in grid_v2, load_from_csv matches a data row to its cell numerically
\* (to one decimal place), not by the text of the value: a row whose X_Value
\* was rewritten in another format of the same number (150 as 150.0) is
\* restored under the header it is equal to.
C11_TolerantMatch ==
    [][(/\ variant = "v2"
        /\ last.op = "edit_file" /\ last.result = "reformat x"
        /\ LoadFromCsv(TRUE))
       => \A i \in DOMAIN file.rows :
             RowMatchesNumerically(file.rows[i], GridState')
                => RowRestored(file.rows[i], GridState', notes')]_vars

\* the title, parameter entries and scan settings of record a equal those of
\* record b, surrounding whitespace apart
SameSettingsV1(a, b) ==
    /\ Strip(a.title) = Strip(b.title)
    /\ \A k \in ParamLabelSet : Strip(a.pe[k]) = Strip(b.pe[k])
    /\ a.sv = b.sv

\* C12: in grid_v1, a later Load CSV of the file that Export CSV writes sets
\* the title, speed, max power, line interval, number of passes, scan mode,
\* angle increment, auto-rotate, bi-directional and cross-hatch settings to
\* the values they had at export time, whatever they were changed to since.
C12_SettingsRoundTripV1 ==
    [][(/\ variant = "v1"
        /\ FormAsAppliedV1
        /\ ExportToCsvV1(TRUE)
        /\ last'.result = "written")
       => \A s \in SettingsV1 \cup {[title |-> title_entry, pe |-> param_entries,
                                     sv |-> scan_vars]} :
             SameSettingsV1(
                 load_from_csv_v1(file', range_vars, s.sv, s.title, s.pe, GridStateV1),
                 [title |-> title_entry, pe |-> param_entries, sv |-> scan_vars])]_vars

\* the rows of the file fl and the lines of the summary sm name, one for one
\* and in the same order, a note of the store n each, none of them empty
RowsAreNotes(rows, sm, n, note, tabOf) ==
    /\ Len(rows) = Cardinality(DOMAIN n)
    /\ Len(sm) = Cardinality(DOMAIN n)
    /\ \A k \in DOMAIN n : n[k] # <<>>
    /\ \A i \in 1..Len(sm) :
          /\ \E k \in DOMAIN n : k[1] = sm[i].tab /\ n[k] = sm[i].text
          /\ rows[i][note] = sm[i].text
          /\ rows[i][note] # <<>>
          /\ tabOf => rows[i]["Tab"] = NatToStr(sm[i].tab)

\* C13: every export writes as many data rows as the store holds annotations,
\* each with a non-empty text, so that a cleared cell has no row; the summary
\* lists the same entries.
C13_RowsAreAnnotations ==
    [][/\ (\E today \in Dates : ExportToCsv(TRUE, today) /\ last'.result = "written")
          => RowsAreNotes(file'.rows, show_all_notes(GridState), notes, "Note", TRUE)
       /\ (ExportToCsvV1(TRUE) /\ last'.result = "written")
          => RowsAreNotes(file'.rows, show_all_notes_v1(GridStateV1), notes,
                          "Sub-layer name", FALSE)]_vars

\* the cells on screen show the current value sequences of grid_v2
ScreenShowsValues ==
    /\ \A t \in DOMAIN tabs : tabs[t].y = current_values_y
    /\ \/ DOMAIN tabs = {0} /\ tabs[0].x = current_values_x
       \/ DOMAIN tabs = {1, 2} /\ tabs[1].x \o tabs[2].x = current_values_x

\* the row written for the annotation at key carries the headers of the cell
\* as its tab displays it, and the global value of every other parameter
RowOfCell(row, key) ==
    /\ row["X_Value"] = tabs[key[1]].x[key[3] + 1]
    /\ row["Y_Value"] = tabs[key[1]].y[key[2] + 1]
    /\ \A p \in ParamSet :
          row[p] = IF p = current_x_param THEN tabs[key[1]].x[key[3] + 1]
                   ELSE IF p = current_y_param THEN tabs[key[1]].y[key[2] + 1]
                   ELSE Strip(global_entries[p])

\* C14: in grid_v2, in single mode and on either tab of the split mode, the
\* exported row of an annotation carries as X_Value the x value heading the
\* cell's column in its tab and as Y_Value the y value heading its row; the
\* columns of the two axis parameters carry these values, every other
\* parameter column the global value.
C14_RowCarriesCellValues ==
    [][(/\ variant = "v2"
        /\ ScreenShowsValues
        /\ \E today \in Dates : ExportToCsv(TRUE, today)
        /\ last'.result = "written")
       => \A i \in 1..Len(file'.rows) :
             RowOfCell(file'.rows[i], SortedKeys(DOMAIN notes)[i])]_vars

\* v is an integer text without decimals
IntegerText(v) == v # <<>> /\ AllDigits(v)

\* v is a number text with exactly k decimal digits
DecimalText(v, k) ==
    /\ Len(v) >= k + 2
    /\ AllDigits(SubSeq(v, 1, Len(v) - k - 1))
    /\ v[Len(v) - k] = "."
    /\ AllDigits(SubSeq(v, Len(v) - k + 1, Len(v)))

\* v is rendered in the formatting class of param
InFormatClass(param, v) ==
    CASE param \in {"Speed", "Power", "Passes", "Q-Pulse"} -> IntegerText(v)
      [] param = "Line Interval" -> DecimalText(v, 4)
      [] param = "Frequency"     -> DecimalText(v, 1)

\* C15: in grid_v2, every element of every generated sequence is rendered in
\* its parameter's formatting class (Speed, Power, Passes and Q-Pulse as an
\* integer without decimals, Line Interval with 4 decimal digits, Frequency
\* with 1), also when start equals end.
C15_FormattingClass ==
    GenParsed =>
        /\ gen.out.ok
        /\ \A i \in 1..Len(gen.out.vals) : InFormatClass(gen.param, gen.out.vals[i])

\* a range field of the record rv of grid_v1 does not parse
RangeFieldsUnparseableV1(rv) ==
    \/ ~ParseFloat(rv.freq_start).ok \/ ~ParseFloat(rv.freq_end).ok
    \/ ~ParseInt(rv.q1_start).ok \/ ~ParseInt(rv.q1_end).ok
    \/ ~ParseInt(rv.q2_start).ok \/ ~ParseInt(rv.q2_end).ok

\* C16: when the grid specification that load_from_csv rebuilds from the
\* file's metadata fails to apply (the same parameter on both axes, a range or
\* a count that does not parse), the load is aborted with an error and the
\* axis, range and count fields, the global parameters, the grid and the
\* annotations stay what they were before the load.
C16_FailedLoadKeepsState ==
    [][(\/ /\ variant = "v2"
           /\ ~apply_ranges(LoadForm(file.meta, Form), GridState).built
           /\ LoadFromCsv(TRUE)
        \/ /\ variant = "v1"
           /\ RangeFieldsUnparseableV1(LoadRangeVars(file.meta, range_vars))
           /\ LoadFromCsvV1(TRUE))
       => /\ \E i \in 1..Len(dialog') : dialog'[i].box = "showerror"
          /\ \A i \in 1..Len(dialog') : dialog'[i].title # "Load Complete"
          /\ UNCHANGED <<notes, buttons, tabs, v2Vars, v1Vars>>]_vars

\* C17: in grid_v2 the exported file is a function of the applied grid, the
\* annotations and the global parameters only: typing into an axis, mode,
\* count or range field without applying it does not change what export
\* writes.
C17_ExportOfAppliedGrid ==
    [][(/\ variant = "v2"
        /\ DOMAIN notes # {}
        /\ ~ExportIndexError(GridState)
        /\ \E f \in Forms : Configure(f))
       => \A today \in Dates :
             ExportFile(today, Form', GridState, global_entries)
                = ExportFile(today, Form, GridState, global_entries)]_vars

\* C18: in grid_v2 split mode, an x sequence of fewer than 4 values is shown
\* in one unsplit tab with id 0 that holds the whole sequence, the operator is
\* warned, and apply_ranges completes normally (store cleared, no error box);
\* with 4 or more values the grid is split and no warning is shown.
C18_SplitFallback ==
    (/\ variant = "v2"
     /\ last.op = "apply_ranges" /\ last.result = "built"
     /\ qpulse_mode = "Split") =>
        /\ notes = EmptyNotes
        /\ \A i \in 1..Len(dialog) : dialog[i].box # "showerror"
        /\ IF Len(current_values_x) < 4
           THEN /\ DOMAIN tabs = {0}
                /\ tabs[0].x = current_values_x /\ tabs[0].y = current_values_y
                /\ dialog = <<Msg("showwarning", "Split Grids")>>
           ELSE /\ DOMAIN tabs = {1, 2}
                /\ dialog = <<>>

\* apply_ranges has built the single tab of a split request of 3 x values
C18_Witness ==
    /\ variant = "v2"
    /\ last.op = "apply_ranges" /\ last.result = "built"
    /\ qpulse_mode = "Split"
    /\ Len(current_values_x) = 3
    /\ DOMAIN tabs = {0}
    /\ dialog = <<Msg("showwarning", "Split Grids")>>

\* the silent apply_ranges and clear_all of grid_v1's load run to their end
LoadReachesRowsV1 ==
    /\ ~apply_ranges_v1(LoadRangeVars(file.meta, range_vars), GridStateV1, TRUE).raised
    /\ ~ClearRaises(apply_ranges_v1(LoadRangeVars(file.meta, range_vars),
                                    GridStateV1, TRUE).st.notes,
                    buttons', tabs')

\* C19: a problem with one data row never aborts the load: a row that names
\* other axes, whose values match no index of the regenerated sequences or
\* whose shape cannot be parsed is skipped, the load completes, and every row
\* of the file that does match is restored.
C19_BadRowSkipped ==
    [][/\ (variant = "v2" /\ DataRows(file.rows) # <<>> /\ LoadFromCsv(TRUE))
          => /\ dialog'[Len(dialog')] = Msg("showinfo", "Load Complete")
             /\ \A i \in DOMAIN file.rows :
                   LoadRow(file.rows[i], GridState').hit
                      => LoadRow(file.rows[i], GridState').key \in DOMAIN notes'
       /\ (/\ variant = "v1" /\ DataRowsV1(file.rows) # <<>>
           /\ LoadReachesRowsV1
           /\ LoadFromCsvV1(TRUE))
          => /\ dialog'[Len(dialog')] = Msg("showinfo", "Load Complete")
             /\ \A i \in DOMAIN file.rows :
                   LoadRowV1(file.rows[i], GridStateV1').hit
                      => LoadRowV1(file.rows[i], GridStateV1').key \in DOMAIN notes']_vars

\* the metadata keys of grid_v2's axis, mode, count and range fields
FormKeysV2 ==
    {<<"X_Axis">>, <<"Y_Axis">>, <<"Mode">>, <<"X_counts">>, <<"Y_counts">>}
    \cup {<<p, "_start">> : p \in ParamSet} \cup {<<p, "_end">> : p \in ParamSet}

\* the field of the form f of grid_v2 that the metadata key names
FormFieldV2(f, key) ==
    CASE key = <<"X_Axis">>   -> f.x_axis_var
      [] key = <<"Y_Axis">>   -> f.y_axis_var
      [] key = <<"Mode">>     -> f.qpulse_mode
      [] key = <<"X_counts">> -> f.x_counts_var
      [] key = <<"Y_counts">> -> f.y_counts_var
      [] Len(key) = 2 /\ key[2] = "_start" -> f.ranges[key[1]].start
      [] Len(key) = 2 /\ key[2] = "_end"   -> f.ranges[key[1]].end

\* the value the file gives to the field that key names
FileFieldV2(meta, key) ==
    IF key \in {<<"X_Axis">>, <<"Y_Axis">>} THEN MetaGet(meta, key)
    ELSE IF key = <<"Mode">>
    THEN (IF MetaGet(meta, key) = "Split" THEN "Split" ELSE "Single")
    ELSE Strip(MetaGet(meta, key))

\* the metadata keys of grid_v1's range fields and the fields they name
RangeKeysV1 ==
    {<<<<"Freq Start">>, "freq_start">>, <<<<"Freq End">>, "freq_end">>,
     <<<<"Q1 Start">>, "q1_start">>, <<<<"Q1 End">>, "q1_end">>,
     <<<<"Q2 Start">>, "q2_start">>, <<<<"Q2 End">>, "q2_end">>}

\* C20: when the loaded file lacks the metadata key of an axis, a range start
\* or end, a count or the mode, load_from_csv leaves that field at the value
\* it had before the load, sets the fields whose keys are present, and still
\* completes the load.
C20_PartialMetadata ==
    [][/\ (/\ variant = "v2"
           /\ \E key \in FormKeysV2 : ~HasMeta(file.meta, key)
           /\ LoadFromCsv(TRUE))
          => /\ \A key \in FormKeysV2 :
                   FormFieldV2(Form', key)
                      = IF HasMeta(file.meta, key) THEN FileFieldV2(file.meta, key)
                        ELSE FormFieldV2(Form, key)
             /\ \A i \in 1..Len(dialog') : dialog'[i].title # "Load Error"
             /\ dialog'[Len(dialog')].title \in {"Load Complete", "Load"}
       /\ (/\ variant = "v1"
           /\ \E k \in RangeKeysV1 : ~HasMeta(file.meta, k[1])
           /\ LoadFromCsvV1(TRUE))
          => /\ \A k \in RangeKeysV1 :
                   range_vars'[k[2]]
                      = IF HasMeta(file.meta, k[1]) THEN Strip(MetaGet(file.meta, k[1]))
                        ELSE range_vars[k[2]]
             /\ \A i \in 1..Len(dialog') : dialog'[i].title # "Load Error"
             /\ dialog'[Len(dialog')].title \in {"Load Complete", "Load"}]_vars

\* the place of the cell k among the annotated cells of the store n, counted
\* from 1 in ascending order of tab, then row, then column
KeyRank(n, k) ==
    1 + Cardinality({j \in DOMAIN n :
                        \/ j[1] < k[1]
                        \/ j[1] = k[1] /\ j[2] < k[2]
                        \/ j[1] = k[1] /\ j[2] = k[2] /\ j[3] < k[3]})

\* the summary line of the annotation at k, in grid_v2 and in grid_v1
SummaryLine(k) ==
    [tab |-> k[1], y |-> current_values_y[k[2] + 1],
     x |-> current_values_x[k[3] + 1], text |-> notes[k]]

SummaryLineV1(k) ==
    [tab |-> k[1], y |-> current_freq_labels[k[2] + 1],
     x |-> QPulseOf(GridStateV1, k[1])[k[3] + 1], text |-> notes[k]]

\* C21: the rows of an export and the lines of a summary stand in ascending
\* (tab, row, col) order of the annotated cells: the entry of a cell is at the
\* place given by the number of annotated cells before it, whatever the order
\* in which the notes were set, edited or loaded.
C21_AscendingOrder ==
    [][/\ (\E today \in Dates : ExportToCsv(TRUE, today) /\ last'.result = "written")
          => /\ Len(file'.rows) = Cardinality(DOMAIN notes)
             /\ \A k \in DOMAIN notes :
                   file'.rows[KeyRank(notes, k)]
                       = ExportRow(k, notes[k], GridState, GlobalsDict(global_entries))
       /\ (ExportToCsvV1(TRUE) /\ last'.result = "written")
          => /\ Len(file'.rows) = Cardinality(DOMAIN notes)
             /\ \A k \in DOMAIN notes :
                   file'.rows[KeyRank(notes, k)]
                       = ExportRowV1(k, notes[k], GridStateV1,
                                     get_params_dict(title_entry, param_entries))
       /\ (ShowAllNotes /\ last'.result = "shown" /\ variant = "v2")
          => /\ Len(show_all_notes(GridState)) = Cardinality(DOMAIN notes)
             /\ \A k \in DOMAIN notes :
                   show_all_notes(GridState)[KeyRank(notes, k)] = SummaryLine(k)
       /\ (ShowAllNotes /\ last'.result = "shown" /\ variant = "v1")
          => /\ Len(show_all_notes_v1(GridStateV1)) = Cardinality(DOMAIN notes)
             /\ \A k \in DOMAIN notes :
                   show_all_notes_v1(GridStateV1)[KeyRank(notes, k)] = SummaryLineV1(k)]_vars

\* an export has written the rows of two annotations that were set in
\* any order; the two rows differ
C21_Witness ==
    /\ last.op = "export_to_csv" /\ last.result = "written"
    /\ Cardinality(DOMAIN notes) >= 2
    /\ Len(file.rows) = Cardinality(DOMAIN notes)
    /\ file.rows[1] # file.rows[2]

\* values of the '# Date:' line: the dates of export, an empty value and
\* texts that are values of other lines
DateValues == Dates \cup {<<>>, Txt150, <<"S", "p", "l", "i", "t">>}

\* the file fl with its date line rewritten to d, and without its date line
WithDate(fl, d) == [fl EXCEPT !.meta = SetMeta(@, <<"Date">>, d)]

WithoutDate(fl) == [fl EXCEPT !.meta = DropMeta(@, <<"Date">>)]

\* C22: the grid_v2 decoder ignores the generation date: from any state of the
\* window, loading a file gives the same form, grid, global entries,
\* annotations, boxes and count whatever the value of its '# Date:' line, and
\* also when the line is absent.
C22_DateIgnored ==
    (variant = "v2" /\ file.exists)
    => LET got == load_from_csv(file, Form, GridState, global_entries)
       IN  /\ \A d \in DateValues :
                 load_from_csv(WithDate(file, d), Form, GridState, global_entries) = got
           /\ load_from_csv(WithoutDate(file), Form, GridState, global_entries) = got

\* a file that carries a date line was loaded and notes were restored from it
C22_Witness ==
    /\ variant = "v2" /\ file.exists
    /\ HasMeta(file.meta, <<"Date">>)
    /\ WithoutDate(file) # file
    /\ last.op = "load_from_csv" /\ last.result = "loaded" /\ last.loaded >= 1

\* seq has the sample count of values, evenly spaced from a to b inclusive
EvenlySpaced(seq, a, b) ==
    /\ Len(seq) = NUM_STEPS
    /\ seq[1] = a
    /\ seq[NUM_STEPS] = b
    /\ \A i \in 1..(NUM_STEPS - 2) : seq[i + 1] - seq[i] = seq[i + 2] - seq[i + 1]

\* C23: in grid_v1, when apply_ranges builds the grids from integer Q-pulse
\* fields, ascending or descending, each of the two Q-pulse sequences has
\* NUM_STEPS values evenly spaced from its start to its end: the first value
\* is the start and the last value is the end.
C23_QPulseSequence ==
    [][(ApplyRangesV1(TRUE) /\ last'.result = "built")
       => /\ EvenlySpaced(current_qpulse1', ParseInt(range_vars.q1_start).val,
                          ParseInt(range_vars.q1_end).val)
          /\ EvenlySpaced(current_qpulse2', ParseInt(range_vars.q2_start).val,
                          ParseInt(range_vars.q2_end).val)]_vars

\* the key k names a cell of the current grid of grid_v2
CellOfGrid(k) ==
    /\ k[1] \in DOMAIN tabs
    /\ k[2] < Len(current_values_y)
    /\ k[3] < Len(tabs[k[1]].x)

\* C24: in grid_v2, after any sequence of apply_ranges calls, note edits,
\* clear-all and loads, every key of the annotation store names a cell of the
\* current grid (a built tab, a row below len(current_values_y), a column of
\* that tab), and so export and summary index inside current_values_x and
\* current_values_y.
C24_KeysInGrid ==
    variant = "v2"
    => /\ \A k \in DOMAIN notes : CellOfGrid(k)
       /\ ~ExportIndexError(GridState)

\* C25: after any sequence of operations, loads of files changed on disk
\* included, every annotation of the store has a text that is not empty and
\* at most MAX_NOTE_LENGTH characters long (MAX_NOTE_LENGTH_V1 in grid_v1).
C25_StoreContent ==
    \A k \in DOMAIN notes : notes[k] # <<>> /\ Len(notes[k]) <= MaxNote

\* C26: when a load of either program finishes with its 'Load Complete' box,
\* the number of notes it reports as loaded is the number of annotations in
\* the store: a skipped row is not counted and no annotation is counted twice.
C26_LoadedCount ==
    [][((LoadFromCsv(TRUE) \/ LoadFromCsvV1(TRUE))
        /\ last'.result = "loaded"
        /\ dialog' # <<>>
        /\ dialog'[Len(dialog')].title = "Load Complete")
       => last'.loaded = Cardinality(DOMAIN notes')]_vars

====
